---- MODULE Spec2Model ----
(***************************************************************************)
(* A model of the device-communication layer of the Dahua integration:     *)
(*   - dahua_utils.parse_event          (HTTP event-stream block parser)   *)
(*   - vto.DahuaVTOClient               (binary RPC client of intercoms)   *)
(*   - thread.DahuaEventThread          (HTTP stream consumer thread)      *)
(*   - thread.DahuaVtoEventThread       (VTO consumer thread)              *)
(* Text and bytes are sequences of lexical tokens; every part of the       *)
(* program has its own specification (SpecParse, SpecRx, SpecThread, ...)  *)
(* over its own group of variables, the other groups staying constant.     *)
(***************************************************************************)
EXTENDS Integers, Sequences, FiniteSets, TLC

VARIABLES
    \* ---- parse_event (dahua_utils.py) ----
    pe_pc,        \* "build" while the chunk is being received, "done" after parse_event
    pe_blocks,    \* the names of the blocks of the chunk, in order (history)
    pe_data,      \* the text handed to parse_event
    pe_result,    \* what parse_event did: [err, events]
    \* ---- DahuaVTOClient.data_received on one read (vto.py) ----
    rx_pc,        \* "build" while the read is being assembled, "done" after data_received
    rx_frames,    \* the frames of the read, in order (history)
    rx_data,      \* the bytes handed to data_received
    rx_calls,     \* the handler calls data_received made, in order
    \* ---- DahuaEventThread (thread.py) ----
    th_pc,        \* position of the thread in run()
    th_started,   \* self.started
    th_stopped,   \* self.stopped (threading.Event)
    th_now,       \* time.time(), in ticks of 1/TicksPerSec second
    th_start_time,\* start_time of the connection in flight (whole seconds)
    th_opened_at, \* th_now when the connection in flight was opened (history)
    th_opens,     \* number of stream connections opened so far (history)
    th_stopCalled,\* stop() was called after start() (history)
    th_last,      \* how the last connection ended and what run() did next (history)
    \* ---- DahuaVTOClient.send, statement by statement (vto.py) ----
    sd_request_id,\* self.request_id
    sd_handlers,  \* self.data_handlers: id -> handler
    sd_pc,        \* the statement of send each calling thread is at
    sd_tmp,       \* the value of request_id each thread read for its += 1
    sd_msg,       \* the message_data each thread built
    sd_wire,      \* the messages written to the transport, in order
    sd_calls,     \* number of send calls made so far (history)
    sd_closing,   \* self.transport.is_closing()
    \* ---- DahuaVTOClient, the protocol of one connection (vto.py) ----
    v_request_id, \* self.request_id
    v_sessionId,  \* self.sessionId
    v_realm,      \* self.realm (0 for None)
    v_random,     \* self.random (0 for None)
    v_keep_alive_interval, \* self.keep_alive_interval
    v_hold_time,  \* self.hold_time
    v_details,    \* self.dahua_details
    v_handlers,   \* self.data_handlers: id -> handler
    v_timers,     \* the delays of the pending threading.Timer objects of keep_alive
    v_transport,  \* "none" before connection_made, then "open" or "closing"
    v_stopping,   \* loop.stop() was called
    v_sent,       \* the messages written to the transport, in order (history)
    v_chals,      \* the challenges handle_pre_login accepted, in order (history)
    v_authFailed, \* a pre-login or login response was handled that did not log in (history)
    v_last,       \* the last message handled and what its handler did (history)
    \* ---- DahuaVtoEventThread (thread.py) ----
    vt_pc,        \* position of the thread in run()
    vt_started,   \* self.started
    vt_ended,     \* how the last connection attempt ended (history)
    vt_stopCalled, \* stop() was called (history)
    \* ---- DahuaClient.stream_events and the coordinator's on_receive ----
    st_pc,        \* "idle" before the request, "open" while chunks are read, "closed"
    st_channel,   \* self._channel of the coordinator
    st_pending,   \* the blocks the device sent that were not read yet (history)
    st_data,      \* the bytes of those blocks
    st_chunks,    \* the chunks on_receive was called with, as block names (history)
    st_bus,       \* the events fired on the bus, in order
    st_timestamp, \* self._dahua_event_timestamp
    st_calls,     \* the listener calls made, in order
    st_last,      \* what on_receive did with the last chunk (history)
    \* ---- DahuaClient.get and the setConfig operations (client.py) ----
    ap_pc,        \* "wait" while the device writes its response, "done" after the call
    ap_data,      \* the text of the response body
    ap_result,    \* the call made and how it ended: [op, raised, value]
    \* ---- DahuaDataUpdateCoordinator._async_update_data_int, the one-time initialization ----
    in_pc,        \* the await the initialization is at; "new", "done" or "failed" outside it
    in_channel,   \* self._channel
    in_device,    \* the device at the address: what it reports as its type
    in_channel_number, \* self._channel_number
    in_initialized, \* self.initialized
    in_model,     \* self.model
    in_machine_name, \* what async_get_machine_name returned: "dict" or "None"
    in_supports,  \* the _supports_ flags
    in_max_streams, \* self._max_streams
    in_profile_mode, \* self._profile_mode
    in_listener,  \* the event threads that were started, of "http" and "vto"
    in_writers,   \* the execution contexts that wrote _dahua_event_timestamp (history)
    in_snapshot,  \* how the snapshot probe of this run ended (history)
    in_probe,     \* the last capability probe of this run and how it ended (history)
    in_cause,     \* the step and the error that ended this run (history)
    in_raised,    \* what the last run raised to its caller, "none" if nothing
    in_session,   \* the ClientSession the coordinator made for its client: "open", "closed"
    \* ---- the password hash of global.login, vto.py and rpc2.py ----
    hp_inputs,    \* username, password and the realm and random of the challenge
    hp_vto,       \* what DahuaVTOClient._get_hashed_password returned, NotComputed before
    hp_rpc2,      \* pass_hash of DahuaRpc2Client.login, NotComputed before
    \* ---- DahuaRpc2Client, rpc2.py ----
    r2_id,        \* self._id
    r2_session_id, \* self._session_id, NoSession for None
    r2_hello,     \* the number of times 'Hello, world' was sent to port 37777
    r2_posted,    \* the bodies posted to the device, in order
    r2_last,      \* the last operation: its name, what it raised, what it returned
    \* ---- on_receive_vto_event and the binary sensors of a doorbell ----
    db_channel,   \* self._channel of the coordinator
    db_listeners, \* self._dahua_event_listeners: the event keys a sensor registered
    db_timestamp, \* self._dahua_event_timestamp
    db_calls,     \* the event keys whose listener was called, in order
    db_last,      \* the last operation: a sensor added, or the event received
    \* ---- DahuaVTOClient.data_received over the reads of one connection ----
    rd_sent,      \* the number of frames the device has sent
    rd_wire,      \* the bytes the device sent that the transport has not delivered yet
    rd_reads,     \* the reads the transport delivered to data_received, in order
    rd_calls      \* for each read, the handler calls data_received made, in order

parseVars  == <<pe_pc, pe_blocks, pe_data, pe_result>>
rxVars     == <<rx_pc, rx_frames, rx_data, rx_calls>>
threadVars == <<th_pc, th_started, th_stopped, th_now, th_start_time, th_opened_at,
                th_opens, th_stopCalled, th_last>>
sendVars   == <<sd_request_id, sd_handlers, sd_pc, sd_tmp, sd_msg, sd_wire, sd_calls,
                sd_closing>>
clientVars == <<v_request_id, v_sessionId, v_realm, v_random, v_keep_alive_interval,
                v_hold_time, v_details, v_handlers, v_timers, v_transport, v_stopping,
                v_sent, v_chals, v_authFailed, v_last>>
threadVtVars == <<vt_pc, vt_started, vt_ended, vt_stopCalled>>
vtoVars    == <<clientVars, threadVtVars>>
streamVars == <<st_pc, st_channel, st_pending, st_data, st_chunks, st_bus, st_timestamp,
                st_calls, st_last>>
apiVars    == <<ap_pc, ap_data, ap_result>>
initVars   == <<in_pc, in_channel, in_device, in_channel_number, in_max_streams, in_profile_mode,
                in_initialized, in_model, in_machine_name, in_supports, in_listener,
                in_writers, in_snapshot, in_probe, in_cause, in_raised, in_session>>
hashVars   == <<hp_inputs, hp_vto, hp_rpc2>>
rpc2Vars   == <<r2_id, r2_session_id, r2_hello, r2_posted, r2_last>>
sensorVars == <<db_channel, db_listeners, db_timestamp, db_calls, db_last>>
readsVars  == <<rd_sent, rd_wire, rd_reads, rd_calls>>
vars       == <<parseVars, rxVars, threadVars, sendVars, vtoVars, streamVars, apiVars, initVars, hashVars, rpc2Vars, sensorVars, readsVars>>

\* what the actions of one group leave alone
notParse  == <<rxVars, threadVars, sendVars, vtoVars, streamVars, apiVars, initVars, hashVars, rpc2Vars, sensorVars, readsVars>>
notRx     == <<parseVars, threadVars, sendVars, vtoVars, streamVars, apiVars, initVars, hashVars, rpc2Vars, sensorVars, readsVars>>
notThread == <<parseVars, rxVars, sendVars, vtoVars, streamVars, apiVars, initVars, hashVars, rpc2Vars, sensorVars, readsVars>>
notSend   == <<parseVars, rxVars, threadVars, vtoVars, streamVars, apiVars, initVars, hashVars, rpc2Vars, sensorVars, readsVars>>
notVto    == <<parseVars, rxVars, threadVars, sendVars, streamVars, apiVars, initVars, hashVars, rpc2Vars, sensorVars, readsVars>>
notStream == <<parseVars, rxVars, threadVars, sendVars, vtoVars, apiVars, initVars, hashVars, rpc2Vars, sensorVars, readsVars>>
notApi    == <<parseVars, rxVars, threadVars, sendVars, vtoVars, streamVars, initVars, hashVars, rpc2Vars, sensorVars, readsVars>>
notInit   == <<parseVars, rxVars, threadVars, sendVars, vtoVars, streamVars, apiVars, hashVars, rpc2Vars, sensorVars, readsVars>>
notHash   == <<parseVars, rxVars, threadVars, sendVars, vtoVars, streamVars, apiVars, initVars, rpc2Vars, sensorVars, readsVars>>
notRpc2   == <<parseVars, rxVars, threadVars, sendVars, vtoVars, streamVars, apiVars, initVars, hashVars, sensorVars, readsVars>>
notSensor == <<parseVars, rxVars, threadVars, sendVars, vtoVars, streamVars, apiVars, initVars, hashVars, rpc2Vars, readsVars>>
notReads  == <<parseVars, rxVars, threadVars, sendVars, vtoVars, streamVars, apiVars, initVars, hashVars, rpc2Vars, sensorVars>>

(***************************************************************************)
(* Strings as token sequences: str.split, str.strip, str.startswith.       *)
(***************************************************************************)
RECURSIVE IndexOf(_, _, _)
\* str.find(c, from): the first position >= from holding token c, 0 when none
IndexOf(s, c, from) ==
    IF from > Len(s) THEN 0
    ELSE IF s[from] = c THEN from
    ELSE IndexOf(s, c, from + 1)

RECURSIVE SplitMax(_, _, _)
\* str.split(sep, maxsplit): at most maxsplit cuts, the rest kept whole
SplitMax(s, sep, maxsplit) ==
    LET i == IndexOf(s, sep, 1) IN
    IF maxsplit = 0 \/ i = 0 THEN << s >>
    ELSE << SubSeq(s, 1, i - 1) >> \o SplitMax(SubSeq(s, i + 1, Len(s)), sep, maxsplit - 1)

\* str.split(sep) and re.split(sep, s) for a literal separator
Split(s, sep) == SplitMax(s, sep, Len(s))

\* "N" is a newline, "R" a carriage return
Whitespace == {"N", "R", " "}

RECURSIVE LStrip(_)
LStrip(s) == IF s # <<>> /\ Head(s) \in Whitespace THEN LStrip(Tail(s)) ELSE s

RECURSIVE RStrip(_)
RStrip(s) ==
    IF s # <<>> /\ s[Len(s)] \in Whitespace THEN RStrip(SubSeq(s, 1, Len(s) - 1)) ELSE s

\* str.strip()
Strip(s) == RStrip(LStrip(s))

\* str.startswith(p)
StartsWith(s, p) == Len(s) >= Len(p) /\ SubSeq(s, 1, Len(p)) = p

(***************************************************************************)
(* dahua_utils.parse_event                                                 *)
(* Tokens: "B" is the text "--myboundary\n", "N" a newline, "h" the text   *)
(* of a header line, "J" the JSON text of an object without ';' and '=',   *)
(* "JH" such a text with Object.ObjectType "Human", "X" a text that is no  *)
(* JSON and holds no ';' and no '='; the other tokens are words.           *)
(***************************************************************************)
\* json.loads(text): whether it succeeds (the text, stripped, is one JSON text)
JsonLoads_ok(text) == Strip(text) \in {<< "J" >>, << "JH" >>}

\* the value json.loads returns: a dict, written as the mark "json" before its text
JsonLoads(text) == << "json" >> \o Strip(text)

\* key, value = key_value.split('='): the unpacking needs exactly two parts
Unpackable(key_value) == Len(Split(key_value, "=")) = 2

RECURSIVE FillEvent(_, _)
\* for key_value in event_block.split(';'): event[key] = value
FillEvent(event, segments) ==
    IF segments = <<>> THEN event
    ELSE LET kv  == Split(Head(segments), "=")
             key == kv[1]
             rest == [k \in (DOMAIN event) \cup {key} |->
                          IF k = key THEN kv[2] ELSE event[k]]
         IN FillEvent(rest, Tail(segments))

\* if "data" in event: try json.loads(event["data"]) except: pass
ConvertData(event) ==
    IF << "data" >> \in DOMAIN event /\ JsonLoads_ok(event[<< "data" >>])
    THEN [event EXCEPT ![<< "data" >>] = JsonLoads(event[<< "data" >>])]
    ELSE event

\* the guard of line 56: a block with fewer than 3 parts is skipped
TooShort(s) == Len(s) < 3

RECURSIVE ParseBlocks(_, _)
\* the loop over event_blocks; an exception ends the call with no result
ParseBlocks(event_blocks, events) ==
    IF event_blocks = <<>> THEN [err |-> "none", events |-> events]
    ELSE LET s == SplitMax(Head(event_blocks), "N", 3) IN
         IF TooShort(s) THEN ParseBlocks(Tail(event_blocks), events)
         ELSE IF Len(s) < 4 THEN [err |-> "IndexError", events |-> <<>>]
         ELSE LET event_block == Strip(s[4]) IN
              IF ~StartsWith(event_block, << "Code", "=" >>)
              THEN ParseBlocks(Tail(event_blocks), events)
              ELSE LET segments == Split(event_block, ";") IN
                   IF \E i \in 1..Len(segments) : ~Unpackable(segments[i])
                   THEN [err |-> "ValueError", events |-> <<>>]
                   ELSE ParseBlocks(Tail(event_blocks),
                            Append(events, ConvertData(FillEvent(<<>>, segments))))

parse_event(data) == ParseBlocks(Split(data, "B"), <<>>)

(***************************************************************************)
(* The chunks parse_event is applied to: boundary-delimited blocks.        *)
(***************************************************************************)
MaxBlocks == 3

Hdr == << "h", "N", "h", "N", "N" >>

BlockText(name) ==
    CASE name = "ev1" ->
           Hdr \o << "Code", "=", "c1", ";", "action", "=", "a1", ";", "index", "=", "i0", "N", "N" >>
      [] name = "ev2" ->
           Hdr \o << "Code", "=", "c2", ";", "action", "=", "a1", ";", "data", "=", "J", "N", "N" >>
      [] name = "evBadJson" ->
           Hdr \o << "Code", "=", "c3", ";", "data", "=", "X", "N", "N" >>
      [] name = "evEqData" ->
           Hdr \o << "Code", "=", "c5", ";", "data", "=", "X", "=", "X", "N", "N" >>
      [] name = "heartbeat" -> Hdr \o << "w", "N", "N" >>
      [] name = "noCode"    -> Hdr \o << "action", "=", "a1", "N" >>
      [] name = "oneLine"   -> << "h" >>
      [] name = "twoLines"  -> << "h", "N", "h" >>
      [] name = "cutHeader" -> << "h", "N", "h", "N" >>
      [] name = "badSegment" -> Hdr \o << "Code", "=", "c4", ";", "w", "N" >>
      [] name = "evStart0" ->
           Hdr \o << "Code", "=", "VideoMotion", ";", "action", "=", "Start", ";",
                     "index", "=", "i0", "N", "N" >>
      [] name = "evStop0" ->
           Hdr \o << "Code", "=", "VideoMotion", ";", "action", "=", "Stop", ";",
                     "index", "=", "i0", "N", "N" >>
      [] name = "evStart1" ->
           Hdr \o << "Code", "=", "VideoMotion", ";", "action", "=", "Start", ";",
                     "index", "=", "i1", "N", "N" >>
      [] name = "evIdxBad" ->
           Hdr \o << "Code", "=", "VideoMotion", ";", "action", "=", "Start", ";",
                     "index", "=", "ix", "N", "N" >>
      [] name = "evCrossBad" ->
           Hdr \o << "Code", "=", "CrossLineDetection", ";", "action", "=", "Start", ";",
                     "index", "=", "i0", ";", "data", "=", "X", "N", "N" >>
      [] name = "evUtf" ->
           Hdr \o << "Code", "=", "c1", "xx", ";", "action", "=", "Stop", ";",
                     "index", "=", "i1", "N", "N" >>

BlockNames == {"ev1", "ev2", "evBadJson", "evEqData", "heartbeat", "noCode", "oneLine",
               "twoLines", "cutHeader", "badSegment"}

\* a chunk grows by one block behind its boundary line
ReceiveBlock(name) ==
    /\ pe_pc = "build"
    /\ Len(pe_blocks) < MaxBlocks
    /\ pe_blocks' = Append(pe_blocks, name)
    /\ pe_data' = pe_data \o << "B" >> \o BlockText(name)
    /\ UNCHANGED <<pe_pc, pe_result, notParse>>

\* events = parse_event(data)
ParseEvent ==
    /\ pe_pc = "build"
    /\ pe_blocks # <<>>
    /\ pe_result' = parse_event(pe_data)
    /\ pe_pc' = "done"
    /\ UNCHANGED <<pe_blocks, pe_data, notParse>>

ParseInit ==
    /\ pe_pc = "build"
    /\ pe_blocks = <<>>
    /\ pe_data = <<>>
    /\ pe_result = [err |-> "none", events |-> <<>>]

ParseNext ==
    \/ \E name \in BlockNames : ReceiveBlock(name)
    \/ ParseEvent

(***************************************************************************)
(* DahuaVTOClient.parse_response / extract_json_objects / data_received    *)
(* Byte tokens of a read: "h" a header byte other than a brace, "{" and    *)
(* "}" the bytes 0x7B and 0x7D (JSON braces in a body, length bytes in a   *)
(* header), "id1".. the member "id":n, "m" another member with a scalar    *)
(* value, "mu" a member whose string holds a non-ASCII character, "k" the  *)
(* key of a member whose value is the object that follows, "p" the key     *)
(* "params" before its object, "nl" a newline byte (JSON whitespace).      *)
(***************************************************************************)
\* str(response) of a bytes object: the repr b'...', which writes a newline byte as
\* the two characters backslash, n and a non-ASCII byte as a \x escape
ReprOfByte(b) ==
    CASE b = "nl" -> << "bs", "n" >>
      [] b = "mu" -> << "mx" >>
      [] OTHER    -> << b >>

RECURSIVE ReprOfBytes(_)
ReprOfBytes(bytes) ==
    IF bytes = <<>> THEN <<>> ELSE ReprOfByte(Head(bytes)) \o ReprOfBytes(Tail(bytes))

\* data = str(response)
StrOfBytes(response) == << "b'" >> \o ReprOfBytes(response) \o << "'" >>

IdOfToken(t) ==
    CASE t = "id1" -> 1 [] t = "id2" -> 2 [] t = "id3" -> 3 [] t = "id4" -> 4

IdTokens == {"id1", "id2", "id3", "id4"}

RECURSIVE ParseMembers(_, _, _, _)
\* JSONDecoder: the members of an object from position i on, up to its closing brace;
\* [ok, end, id, params]: whether it is an object, where it ends, the value of its "id"
\* (0 when it has none: message.get("id") is None), whether it has "params"
ParseMembers(text, i, id, params) ==
    LET bad == [ok |-> FALSE, end |-> 0, id |-> 0, params |-> FALSE] IN
    IF i > Len(text) THEN bad
    ELSE CASE text[i] = "}"      -> [ok |-> TRUE, end |-> i, id |-> id, params |-> params]
           [] text[i] \in IdTokens -> ParseMembers(text, i + 1, IdOfToken(text[i]), params)
           [] text[i] = "m"      -> ParseMembers(text, i + 1, id, params)
           [] text[i] = " "      -> ParseMembers(text, i + 1, id, params)
           [] text[i] \in {"k", "p"} ->
                IF i + 1 <= Len(text) /\ text[i + 1] = "{"
                THEN LET inner == ParseMembers(text, i + 2, 0, FALSE) IN
                     IF inner.ok
                     THEN ParseMembers(text, inner.end + 1, id, params \/ text[i] = "p")
                     ELSE bad
                ELSE bad
           [] OTHER              -> bad

\* decoder.raw_decode(text[match:]) for text[match] = "{"
raw_decode(text, match) == ParseMembers(text, match + 1, 0, FALSE)

RECURSIVE extract_json_objects(_, _)
\* the scan for '{' from pos on; each decoded object is [at, id, params]
extract_json_objects(text, pos) ==
    LET match == IndexOf(text, "{", pos) IN
    IF match = 0 THEN <<>>
    ELSE LET r == raw_decode(text, match) IN
         IF r.ok
         THEN << [at |-> match, id |-> r.id, params |-> r.params] >>
              \o extract_json_objects(text, r.end + 1)
         ELSE extract_json_objects(text, match + 1)

parse_response(response) == extract_json_objects(StrOfBytes(response), 1)

\* self.data_handlers.get(message_id, self.handle_default)
HandlerFor(handlers, message_id) ==
    IF message_id \in DOMAIN handlers THEN handlers[message_id] ELSE "handle_default"

\* handler(message) raises: handle_login and handle_pre_login call params.get on the
\* None that message.get("params") returns for a message without params (lines 182, 203)
HandlerRaises(handler, message) ==
    handler \in {"handle_login", "handle_pre_login"} /\ ~message.params

RECURSIVE DispatchAll(_, _)
\* for message in messages: handler(message), inside one try (lines 93-103): the
\* exception of a handler ends the loop
DispatchAll(handlers, messages) ==
    IF messages = <<>> THEN <<>>
    ELSE LET handler == HandlerFor(handlers, Head(messages).id) IN
         << [handler |-> handler, id |-> Head(messages).id, at |-> Head(messages).at,
             raised |-> HandlerRaises(handler, Head(messages))] >>
         \o (IF HandlerRaises(handler, Head(messages)) THEN <<>>
             ELSE DispatchAll(handlers, Tail(messages)))

(***************************************************************************)
(* The reads data_received is applied to: frames, each a binary header     *)
(* followed by one complete JSON object.                                   *)
(***************************************************************************)
MaxFrames == 2

\* the 32-byte header; its length bytes may be 0x7B ('{') and 0x7D ('}')
HeaderBytes(hdr) ==
    CASE hdr = "plain"   -> << "h", "h" >>
      [] hdr = "len7B"   -> << "h", "{", "h" >>
      [] hdr = "len7D7B" -> << "h", "{", "}", "h" >>

HeaderNames == {"plain", "len7B", "len7D7B"}

\* the JSON body: compact, compact with a nested object, pretty-printed, non-ASCII
BodyBytes(body) ==
    CASE body = "compact"  -> << "{", "id1", "m", "}", "nl" >>
      [] body = "nested"   -> << "{", "id2", "k", "{", "m", "}", "}", "nl" >>
      [] body = "pretty"   -> << "{", "nl", "id3", "nl", "k", "{", "id4", "}", "nl", "}" >>
      [] body = "nonAscii" -> << "{", "id1", "mu", "k", "{", "m", "}", "}" >>
      [] body = "loginOk"  -> << "{", "id3", "p", "{", "m", "}", "}", "nl" >>
      [] body = "loginErr" -> << "{", "id3", "m", "}", "nl" >>

BodyNames == {"compact", "nested", "pretty", "nonAscii", "loginOk", "loginErr"}

\* the "id" of the top-level object of a body
TopId(body) ==
    CASE body = "compact" -> 1 [] body = "nested" -> 2 [] body = "pretty" -> 3
      [] body = "nonAscii" -> 1 [] body = "loginOk" -> 3 [] body = "loginErr" -> 3

\* the handlers registered while the read arrives
RxHandlers == (1 :> "handler1") @@ (2 :> "handler2") @@ (3 :> "handle_login")

\* the device's bytes accumulate in the socket until the transport reads them
RxReceiveFrame(hdr, body) ==
    /\ rx_pc = "build"
    /\ Len(rx_frames) < MaxFrames
    /\ rx_frames' = Append(rx_frames, [hdr |-> hdr, body |-> body])
    /\ rx_data' = rx_data \o HeaderBytes(hdr) \o BodyBytes(body)
    /\ UNCHANGED <<rx_pc, rx_calls, notRx>>

\* data_received(data)
RxDataReceived ==
    /\ rx_pc = "build"
    /\ rx_frames # <<>>
    /\ rx_calls' = DispatchAll(RxHandlers, parse_response(rx_data))
    /\ rx_pc' = "done"
    /\ UNCHANGED <<rx_frames, rx_data, notRx>>

RxInit ==
    /\ rx_pc = "build"
    /\ rx_frames = <<>>
    /\ rx_data = <<>>
    /\ rx_calls = <<>>

RxNext ==
    \/ \E hdr \in HeaderNames, body \in BodyNames : RxReceiveFrame(hdr, body)
    \/ RxDataReceived

(***************************************************************************)
(* DahuaEventThread                                                        *)
(* th_pc: "idle" constructed, "ready" start() called and run() not yet     *)
(* entered, "top" at the head of the while loop (line 36), "streaming" in  *)
(* future.result() (line 46), "sleeping" in time.sleep (line 60),          *)
(* "exited" after a return.  The clock counts ticks of 1/TicksPerSec s.    *)
(***************************************************************************)
TicksPerSec == 2
MaxSeconds == 12
MaxOpens == 2

FastFailSeconds == 10
RetrySleepSeconds == 60

\* int(time.time())
IntTime(now) == now \div TicksPerSec

\* Backoff with the comparison off by one (<= for <)
Backoff_offByOne(start_time, end_time) ==
    IF (end_time - start_time) <= FastFailSeconds THEN RetrySleepSeconds ELSE 0

\* lines 57-60: the pause before the next attempt, in seconds
Backoff(start_time, end_time) ==
    IF (end_time - start_time) < FastFailSeconds THEN RetrySleepSeconds ELSE 0

\* threading.Thread.start()
ThStart ==
    /\ th_pc = "idle"
    /\ th_pc' = "ready"
    /\ UNCHANGED <<th_started, th_stopped, th_now, th_start_time, th_opened_at, th_opens,
                   th_stopCalled, th_last, notThread>>

\* line 32: self.started = True
ThRunBegin ==
    /\ th_pc = "ready"
    /\ th_started' = TRUE
    /\ th_pc' = "top"
    /\ UNCHANGED <<th_stopped, th_now, th_start_time, th_opened_at, th_opens,
                   th_stopCalled, th_last, notThread>>

\* lines 36-38: if not self.started: return
ThExitAtTop ==
    /\ th_pc = "top"
    /\ ~th_started
    /\ th_pc' = "exited"
    /\ UNCHANGED <<th_started, th_stopped, th_now, th_start_time, th_opened_at, th_opens,
                   th_stopCalled, th_last, notThread>>

\* lines 40-42: the stream connection is opened, start_time = int(time.time())
ThOpen ==
    /\ th_pc = "top"
    /\ th_started
    /\ th_opens < MaxOpens
    /\ th_opens' = th_opens + 1
    /\ th_start_time' = IntTime(th_now)
    /\ th_opened_at' = th_now
    /\ th_pc' = "streaming"
    /\ UNCHANGED <<th_started, th_stopped, th_now, th_stopCalled, th_last, notThread>>

\* time passes while the connection is open or the thread sleeps
ThTick ==
    /\ th_pc \in {"streaming", "sleeping"}
    /\ th_now < MaxSeconds * TicksPerSec
    /\ th_now' = th_now + 1
    /\ UNCHANGED <<th_pc, th_started, th_stopped, th_start_time, th_opened_at, th_opens,
                   th_stopCalled, th_last, notThread>>

\* how future.result() can end: stream_events returned (it swallows every Exception
\* of the request and of on_receive), the wait timed out, or the coroutine raised
\* before its try or was cancelled (concurrent.futures.CancelledError, an Exception)
StreamOutcomes == {"return", "timeout", "exception"}

\* a try that handles asyncio.TimeoutError only
Caught_timeoutOnly(outcome) == outcome = "timeout"

\* lines 47-51: except asyncio.TimeoutError, except Exception
Caught(outcome) == outcome \in {"timeout", "exception"}

\* lines 44-60: future.result() returns or raises (TimeoutError, any Exception), then
\* the flag is tested and the pause decided
ThStreamEnds(outcome) ==
    /\ th_pc = "streaming"
    /\ IF outcome # "return" /\ ~Caught(outcome)
       THEN /\ th_pc' = "raised"
            /\ UNCHANGED th_last
       ELSE IF ~th_started
       THEN /\ th_pc' = "exited"
            /\ UNCHANGED th_last
       ELSE LET wait == Backoff(th_start_time, IntTime(th_now)) IN
            /\ th_pc' = IF wait > 0 THEN "sleeping" ELSE "top"
            /\ th_last' = [kind |-> outcome, elapsed |-> th_now - th_opened_at, wait |-> wait]
    /\ UNCHANGED <<th_started, th_stopped, th_now, th_start_time, th_opened_at, th_opens,
                   th_stopCalled, notThread>>

\* time.sleep(60) returns
ThWake ==
    /\ th_pc = "sleeping"
    /\ th_pc' = "top"
    /\ UNCHANGED <<th_started, th_stopped, th_now, th_start_time, th_opened_at, th_opens,
                   th_stopCalled, th_last, notThread>>

\* a stop() that sets the Event and leaves self.started as it is
ThStop_eventOnly ==
    /\ th_pc # "idle"
    /\ ~th_stopCalled
    /\ th_stopCalled' = TRUE
    /\ IF th_started
       THEN th_stopped' = TRUE /\ UNCHANGED th_started
       ELSE UNCHANGED <<th_stopped, th_started>>
    /\ UNCHANGED <<th_pc, th_now, th_start_time, th_opened_at, th_opens, th_last, notThread>>

\* stop(), called by another thread once start() was called
ThStop ==
    /\ th_pc # "idle"
    /\ ~th_stopCalled
    /\ th_stopCalled' = TRUE
    /\ IF th_started
       THEN th_stopped' = TRUE /\ th_started' = FALSE
       ELSE UNCHANGED <<th_stopped, th_started>>
    /\ UNCHANGED <<th_pc, th_now, th_start_time, th_opened_at, th_opens, th_last, notThread>>

ThreadInit ==
    /\ th_pc = "idle"
    /\ th_started = FALSE
    /\ th_stopped = FALSE
    /\ th_now \in 0..(TicksPerSec - 1)
    /\ th_start_time = 0
    /\ th_opened_at = 0
    /\ th_opens = 0
    /\ th_stopCalled = FALSE
    /\ th_last = [kind |-> "none", elapsed |-> 0, wait |-> 0]

ThreadNext ==
    \/ ThStart
    \/ ThRunBegin
    \/ ThExitAtTop
    \/ ThOpen
    \/ ThTick
    \/ \E outcome \in StreamOutcomes : ThStreamEnds(outcome)
    \/ ThWake
    \/ ThStop

\* the other groups' variables while the thread is not looked at
ThreadIdle ==
    /\ th_pc = "idle"
    /\ th_started = FALSE
    /\ th_stopped = FALSE
    /\ th_now = 0
    /\ th_start_time = 0
    /\ th_opened_at = 0
    /\ th_opens = 0
    /\ th_stopCalled = FALSE
    /\ th_last = [kind |-> "none", elapsed |-> 0, wait |-> 0]

(***************************************************************************)
(* DahuaVTOClient.send, statement by statement, called from the threads    *)
(* that call it: the connection's event loop (the response handlers), the  *)
(* threading.Timer thread (keep_alive) and the host (cancel_call).         *)
(***************************************************************************)
MaxCalls == 3

SendThreads == {"loop", "timer", "host"}

\* the handler each caller passes to send
HandlerOfCaller(t) ==
    CASE t = "loop"  -> "handle_response"
      [] t = "timer" -> "handle_keep_alive"
      [] t = "host"  -> "cancel"

\* the value request_id has after __init__
InitialRequestId == 1

\* a thread enters send(action, handler, params)
SdCall(t) ==
    /\ sd_pc[t] = "idle"
    /\ sd_calls < MaxCalls
    /\ sd_calls' = sd_calls + 1
    /\ sd_pc' = [sd_pc EXCEPT ![t] = "load"]
    /\ UNCHANGED <<sd_request_id, sd_handlers, sd_tmp, sd_msg, sd_wire, sd_closing, notSend>>

\* line 138, self.request_id += 1: the read
SdLoad(t) ==
    /\ sd_pc[t] = "load"
    /\ sd_tmp' = [sd_tmp EXCEPT ![t] = sd_request_id]
    /\ sd_pc' = [sd_pc EXCEPT ![t] = "store"]
    /\ UNCHANGED <<sd_request_id, sd_handlers, sd_msg, sd_wire, sd_calls, sd_closing, notSend>>

\* line 138, self.request_id += 1: the write
SdStore(t) ==
    /\ sd_pc[t] = "store"
    /\ sd_request_id' = sd_tmp[t] + 1
    /\ sd_pc' = [sd_pc EXCEPT ![t] = "build"]
    /\ UNCHANGED <<sd_handlers, sd_tmp, sd_msg, sd_wire, sd_calls, sd_closing, notSend>>

\* lines 140-146: message_data = {"id": self.request_id, ...}
SdBuild(t) ==
    /\ sd_pc[t] = "build"
    /\ sd_msg' = [sd_msg EXCEPT ![t] = [id |-> sd_request_id, handler |-> HandlerOfCaller(t)]]
    /\ sd_pc' = [sd_pc EXCEPT ![t] = "register"]
    /\ UNCHANGED <<sd_request_id, sd_handlers, sd_tmp, sd_wire, sd_calls, sd_closing, notSend>>

\* line 148: self.data_handlers[self.request_id] = handler
SdRegister(t) ==
    /\ sd_pc[t] = "register"
    /\ sd_handlers' = [id \in (DOMAIN sd_handlers) \cup {sd_request_id} |->
                          IF id = sd_request_id THEN HandlerOfCaller(t) ELSE sd_handlers[id]]
    /\ sd_pc' = [sd_pc EXCEPT ![t] = "write"]
    /\ UNCHANGED <<sd_request_id, sd_tmp, sd_msg, sd_wire, sd_calls, sd_closing, notSend>>

\* lines 150-153: if not self.transport.is_closing(): self.transport.write(message)
SdWrite(t) ==
    /\ sd_pc[t] = "write"
    /\ sd_wire' = IF sd_closing THEN sd_wire ELSE Append(sd_wire, sd_msg[t])
    /\ sd_pc' = [sd_pc EXCEPT ![t] = "idle"]
    /\ UNCHANGED <<sd_request_id, sd_handlers, sd_tmp, sd_msg, sd_calls, sd_closing, notSend>>

\* the transport starts closing (the connection is going down)
SdClose ==
    /\ ~sd_closing
    /\ sd_closing' = TRUE
    /\ UNCHANGED <<sd_request_id, sd_handlers, sd_pc, sd_tmp, sd_msg, sd_wire, sd_calls, notSend>>

SendInit ==
    /\ sd_request_id = InitialRequestId
    /\ sd_handlers = <<>>
    /\ sd_pc = [t \in SendThreads |-> "idle"]
    /\ sd_tmp = [t \in SendThreads |-> 0]
    /\ sd_msg = [t \in SendThreads |-> [id |-> 0, handler |-> "none"]]
    /\ sd_wire = <<>>
    /\ sd_calls = 0
    /\ sd_closing = FALSE

SendNext ==
    \/ \E t \in SendThreads : SdCall(t)
    \/ \E t \in SendThreads : SdLoad(t)
    \/ \E t \in SendThreads : SdStore(t)
    \/ \E t \in SendThreads : SdBuild(t)
    \/ \E t \in SendThreads : SdRegister(t)
    \/ \E t \in SendThreads : SdWrite(t)
    \/ SdClose

(***************************************************************************)
(* DahuaVTOClient: the protocol of one connection, and DahuaVtoEventThread *)
(* around it.  Each callback of the client (data_received for one message, *)
(* keep_alive in its Timer thread, cancel_call) is one step; send at the   *)
(* grain of its statements is SendNext above.                              *)
(* A message of the device is [id, kind]; the accessors below give the     *)
(* fields of each kind of message (0 and "None" stand for an absent field: *)
(* dict.get returns None).                                                 *)
(***************************************************************************)
MaxRequestId == 13
MaxTimers == 2

KeepAliveMargin == 5

MsgKinds == {"challenge1", "challenge2", "wrongError", "loginOk", "emptyParams", "noParams",
             "notifyAB", "notifyBad", "otherMethod", "devType", "serial", "version",
             "accessControl"}

\* the messages the device is taken to send under the id of a request, by the handler
\* of that request: its answers, good and bad, at any time and any number of times;
\* "handle_default" stands for an id no request carries
DeviceMessages(handler) ==
    CASE handler = "handle_pre_login" ->
             {"challenge1", "challenge2", "wrongError", "emptyParams", "noParams"}
      [] handler = "handle_login" -> {"loginOk", "wrongError", "emptyParams", "noParams"}
      [] handler = "handle_keep_alive" -> {"emptyParams"}
      [] handler = "handle_attach_event_manager" ->
             {"emptyParams", "notifyAB", "notifyBad", "otherMethod", "noParams"}
      [] handler = "handle_device_type" -> {"devType"}
      [] handler = "handle_serial_number" -> {"serial"}
      [] handler = "handle_version" -> {"version"}
      [] handler = "handle_access_control" -> {"accessControl"}
      [] handler = "cancel" -> {"emptyParams"}
      [] OTHER -> {"notifyAB", "emptyParams"}

\* message.get("error").get("message"); "none" when the message has no error
ErrorMessage(kind) ==
    CASE kind \in {"challenge1", "challenge2"} -> "Component error: login challenge!"
      [] kind = "wrongError" -> "Component error: user or password not valid!"
      [] OTHER -> "none"

\* whether message.get("params") is a dict (it is None for "noParams")
HasParams(kind) == kind # "noParams"

\* which challenge the message carries: its random, realm and session
ChallengeOf(kind) ==
    CASE kind \in {"challenge1", "wrongError"} -> 1
      [] kind = "challenge2" -> 2
      [] OTHER -> 0
RandomOf(kind)  == IF ChallengeOf(kind) = 0 THEN 0 ELSE 10 + ChallengeOf(kind)
RealmOf(kind)   == IF ChallengeOf(kind) = 0 THEN 0 ELSE 20 + ChallengeOf(kind)
SessionOf(kind) == IF ChallengeOf(kind) = 0 THEN 0 ELSE 30 + ChallengeOf(kind)

\* params.get("keepAliveInterval"), 0 when absent
KeepAliveOf(kind) ==
    IF kind = "loginOk" THEN 30 ELSE 0

\* message.get("method")
MethodOf(kind) ==
    CASE kind \in {"notifyAB", "notifyBad"} -> "client.notifyEventStream"
      [] kind = "otherMethod" -> "client.notifyConfigChange"
      [] OTHER -> "None"

\* whether params has an eventList, and the list
HasEventList(kind) == kind \in {"notifyAB", "notifyBad", "otherMethod"}
EventListOf(kind) ==
    CASE kind = "notifyAB" -> << "evA", "evB" >>
      [] kind = "notifyBad" -> << "evA", "evBad", "evB" >>
      [] kind = "otherMethod" -> << "evA" >>
      [] OTHER -> <<>>

\* params.get("type"), params.get("table", {}).get("UUID"), params.get("version", {})
TypeOf(kind)    == IF kind = "devType" THEN "VTO2000A" ELSE "None"
UuidOf(kind)    == IF kind = "serial" THEN "uuid-1" ELSE "None"
VersionOf(kind) == IF kind = "version" THEN "4.5" ELSE "None"
BuildDateOf(kind) == IF kind = "version" THEN "2021-01-01" ELSE "None"

\* UnlockReloadInterval of the item of params.table whose AccessProtocol is Local, 0 when
\* there is no table or no such item
HoldTimeOf(kind) == IF kind = "accessControl" THEN 2 ELSE 0

\* on_receive_vto_event raises for this event (e.g. a Pulse whose Data is a list)
CallbackRaises(ev) == ev = "evBad"

Username == "admin"
Password == "secret"

\* _get_hashed_password: MD5upper(username:random:MD5upper(username:realm:password))
HashedPassword(random, realm, username, password) ==
    << "MD5", username, random, << "MD5", username, realm, password >> >>

\* dict assignment d[k] = v
Put(d, k, v) == [x \in (DOMAIN d) \cup {k} |-> IF x = k THEN v ELSE d[x]]

\* the fields of the client a callback works on, as one record
Client ==
    [request_id |-> v_request_id, sessionId |-> v_sessionId, realm |-> v_realm,
     random |-> v_random, keep_alive_interval |-> v_keep_alive_interval,
     hold_time |-> v_hold_time, details |-> v_details, handlers |-> v_handlers,
     timers |-> v_timers,
     sent |-> v_sent, chals |-> v_chals, authFailed |-> v_authFailed]

\* send(action, handler, params): the id, the handler registered under it, and the
\* message written unless the transport is closing
Send(c, closing, action, handler, password) ==
    LET id == c.request_id + 1 IN
    [c EXCEPT !.request_id = id,
              !.handlers = Put(@, id, handler),
              !.sent = IF closing THEN @
                       ELSE Append(@, [id |-> id, method |-> action, session |-> c.sessionId,
                                       password |-> password, after |-> Len(c.chals)])]

\* pre_login(): global.login with an empty password
pre_login(c, closing) == Send(c, closing, "global.login", "handle_pre_login", <<>>)

\* login(): global.login with the derived password
login(c, closing) ==
    Send(c, closing, "global.login", "handle_login",
         HashedPassword(c.random, c.realm, Username, Password))

\* any error taken for the challenge
IsLoginChallenge_anyError(kind) == ErrorMessage(kind) # "none"

\* line 181: error_message == "Component error: login challenge!"
IsLoginChallenge(kind) == ErrorMessage(kind) = "Component error: login challenge!"

\* handle_pre_login(message); a response that is no challenge is only noted (history)
handle_pre_login(c, closing, m) ==
    IF ErrorMessage(m.kind) # "none" /\ IsLoginChallenge(m.kind)
    THEN IF ~HasParams(m.kind)
         THEN [c EXCEPT !.authFailed = TRUE]
         ELSE login([c EXCEPT !.random = RandomOf(m.kind),
                              !.realm = RealmOf(m.kind),
                              !.sessionId = SessionOf(m.kind),
                              !.chals = Append(@, [message |-> ErrorMessage(m.kind),
                                                   random |-> RandomOf(m.kind),
                                                   realm |-> RealmOf(m.kind),
                                                   session |-> SessionOf(m.kind)])],
                    closing)
    ELSE [c EXCEPT !.authFailed = TRUE]

\* line 206: self.keep_alive_interval = keep_alive_interval - 5
KeepAliveDelay(interval) == interval - KeepAliveMargin

load_access_control(c, closing) ==
    Send(c, closing, "configManager.getConfig AccessControl", "handle_access_control", <<>>)
load_version(c, closing) ==
    Send(c, closing, "magicBox.getSoftwareVersion", "handle_version", <<>>)
load_serial_number(c, closing) ==
    Send(c, closing, "configManager.getConfig T2UServer", "handle_serial_number", <<>>)
load_device_type(c, closing) ==
    Send(c, closing, "magicBox.getDeviceType", "handle_device_type", <<>>)
attach_event_manager(c, closing) ==
    Send(c, closing, "eventManager.attach", "handle_attach_event_manager", <<>>)

\* a handler that subscribes whatever the login response carries
handle_login_anyResponse(c, closing, m) ==
    LET c2 == load_access_control(c, closing)
        c3 == load_version(c2, closing)
        c4 == load_serial_number(c3, closing)
        c5 == load_device_type(c4, closing)
    IN attach_event_manager(c5, closing)

\* handle_login(message)
handle_login(c, closing, m) ==
    IF HasParams(m.kind) /\ KeepAliveOf(m.kind) # 0
    THEN LET c1 == [c EXCEPT !.keep_alive_interval = KeepAliveDelay(KeepAliveOf(m.kind))]
             c2 == load_access_control(c1, closing)
             c3 == load_version(c2, closing)
             c4 == load_serial_number(c3, closing)
             c5 == load_device_type(c4, closing)
             c6 == attach_event_manager(c5, closing)
         IN [c6 EXCEPT !.timers = Append(@, c6.keep_alive_interval)]
    ELSE [c EXCEPT !.authFailed = TRUE]

\* keep_alive.handle_keep_alive(message): Timer(self.keep_alive_interval, ...).start()
handle_keep_alive(c, m) == [c EXCEPT !.timers = Append(@, c.keep_alive_interval)]

\* keep_alive(), run by a Timer thread
keep_alive(c, closing) == Send(c, closing, "global.keepAlive", "handle_keep_alive", <<>>)

\* cancel_call(), called by the host
cancel_call(c, closing) == Send(c, closing, "console.runCmd", "cancel", <<>>)

\* handle_device_type, handle_serial_number, handle_version (params.get raises on None)
handle_device_type(c, m) ==
    IF HasParams(m.kind) THEN [c EXCEPT !.details = Put(@, "deviceType", TypeOf(m.kind))] ELSE c
handle_serial_number(c, m) ==
    IF HasParams(m.kind) THEN [c EXCEPT !.details = Put(@, "serialNumber", UuidOf(m.kind))] ELSE c
handle_version(c, m) ==
    IF HasParams(m.kind)
    THEN [c EXCEPT !.details = Put(Put(@, "version", VersionOf(m.kind)),
                                   "buildDate", BuildDateOf(m.kind))]
    ELSE c

\* handle_access_control(message)
handle_access_control(c, m) ==
    IF HasParams(m.kind) /\ HoldTimeOf(m.kind) # 0
    THEN [c EXCEPT !.hold_time = HoldTimeOf(m.kind)] ELSE c

\* the version tag allowed as well
DAHUA_ALLOWED_DETAILS_withVersion == {"deviceType", "serialNumber", "version"}

DAHUA_ALLOWED_DETAILS == {"deviceType", "serialNumber"}

\* lines 110-112: the tags copied into an event
TagsFor(details) ==
    [k \in (DOMAIN details) \cap DAHUA_ALLOWED_DETAILS |-> details[k]]

RECURSIVE NotifyEach(_, _)
\* lines 109-114: for message in event_list: tag it, self.on_receive_vto_event(message);
\* an exception of the callback ends the loop (lines 116-119)
NotifyEach(details, event_list) ==
    IF event_list = <<>> THEN <<>>
    ELSE << [ev |-> Head(event_list), tags |-> TagsFor(details)] >>
         \o (IF CallbackRaises(Head(event_list)) THEN <<>>
             ELSE NotifyEach(details, Tail(event_list)))

\* handle_notify_event_stream(params): the calls of on_receive_vto_event it makes
handle_notify_event_stream(details, m) ==
    IF HasParams(m.kind) /\ HasEventList(m.kind)
    THEN NotifyEach(details, EventListOf(m.kind))
    ELSE <<>>

\* line 236: method == "client.notifyEventStream"
IsNotifyEventStream(kind) == MethodOf(kind) = "client.notifyEventStream"

\* the event list unwrapped whatever the method
handle_attach_event_manager_anyMethod(details, m) == handle_notify_event_stream(details, m)

\* handle_attach_event_manager(message): the calls of on_receive_vto_event it makes
handle_attach_event_manager(details, m) ==
    IF IsNotifyEventStream(m.kind) THEN handle_notify_event_stream(details, m) ELSE <<>>

\* the client after handler(message)
AfterHandler(c, closing, handler, m) ==
    CASE handler = "handle_pre_login"     -> handle_pre_login(c, closing, m)
      [] handler = "handle_login"         -> handle_login(c, closing, m)
      [] handler = "handle_keep_alive"    -> handle_keep_alive(c, m)
      [] handler = "handle_device_type"   -> handle_device_type(c, m)
      [] handler = "handle_serial_number" -> handle_serial_number(c, m)
      [] handler = "handle_version"       -> handle_version(c, m)
      [] handler = "handle_access_control" -> handle_access_control(c, m)
      [] OTHER                            -> c

\* the calls of on_receive_vto_event handler(message) makes
CallsOfHandler(details, handler, m) ==
    IF handler = "handle_attach_event_manager"
    THEN handle_attach_event_manager(details, m) ELSE <<>>

\* the client's fields after a step
SetClient(c) ==
    /\ v_request_id' = c.request_id
    /\ v_sessionId' = c.sessionId
    /\ v_realm' = c.realm
    /\ v_random' = c.random
    /\ v_keep_alive_interval' = c.keep_alive_interval
    /\ v_hold_time' = c.hold_time
    /\ v_details' = c.details
    /\ v_handlers' = c.handlers
    /\ v_timers' = c.timers
    /\ v_sent' = c.sent
    /\ v_chals' = c.chals
    /\ v_authFailed' = c.authFailed

\* DahuaVTOClient.__init__; v_sent, v_chals, v_authFailed and v_last are history
NewClient ==
    [request_id |-> InitialRequestId, sessionId |-> 0, realm |-> 0, random |-> 0,
     keep_alive_interval |-> 0, hold_time |-> 0, details |-> <<>>, handlers |-> <<>>,
     timers |-> <<>>, sent |-> <<>>, chals |-> <<>>, authFailed |-> FALSE]

NoMessage == [kind |-> "none", handler |-> "none", delivered |-> <<>>, started |-> <<>>]

WithinBounds(c) == c.request_id <= MaxRequestId /\ Len(c.timers) <= MaxTimers

\* the random of a challenge is fresh: the device does not issue the same challenge twice
FreshChallenge(kind) ==
    IsLoginChallenge(kind) /\ HasParams(kind)
        => \A i \in 1..Len(v_chals) : v_chals[i].random # RandomOf(kind)

\* Thread.start()
VtStart ==
    /\ vt_pc = "idle"
    /\ vt_pc' = "ready"
    /\ UNCHANGED << vt_started, vt_stopCalled, vt_ended, clientVars, notVto >>

\* run(), line 93
VtRunBegin ==
    /\ vt_pc = "ready"
    /\ vt_started' = TRUE
    /\ vt_pc' = "top"
    /\ UNCHANGED << vt_ended, vt_stopCalled, clientVars, notVto >>

\* run(), lines 98-100
VtExitAtTop ==
    /\ vt_pc = "top" /\ ~vt_started
    /\ vt_pc' = "exited"
    /\ UNCHANGED << vt_started, vt_stopCalled, vt_ended, clientVars, notVto >>

\* run(), lines 102-121: a connection attempt begins
VtConnect ==
    /\ vt_pc = "top" /\ vt_started
    /\ vt_pc' = "connecting"
    /\ UNCHANGED << vt_started, vt_stopCalled, vt_ended, clientVars, notVto >>

\* the connection is established: a new DahuaVTOClient, connection_made, pre_login;
\* run_until_complete returns and run_forever begins.  The Timers of the previous
\* client belong to that object and are left out from here on.
VtConnected ==
    /\ vt_pc = "connecting"
    /\ SetClient(pre_login(NewClient, FALSE))
    /\ v_transport' = "open"
    /\ v_stopping' = FALSE
    /\ v_last' = NoMessage
    /\ vt_pc' = "running"
    /\ vt_ended' = "none"
    /\ UNCHANGED << vt_started, vt_stopCalled, notVto >>

\* run_until_complete raises: lines 129-138
VtConnectFailed ==
    /\ vt_pc = "connecting"
    /\ vt_pc' = IF vt_started THEN "sleep30" ELSE "exited"
    /\ vt_ended' = "exception"
    /\ UNCHANGED << vt_started, vt_stopCalled, clientVars, notVto >>

\* run_forever returns after loop.stop(): lines 123-127
VtLoopStopped ==
    /\ vt_pc = "running" /\ v_stopping
    /\ vt_pc' = "sleep5"
    /\ UNCHANGED << vt_started, vt_stopCalled, vt_ended, clientVars, notVto >>

\* time.sleep(5) or time.sleep(30) returns
VtWake ==
    /\ vt_pc \in {"sleep5", "sleep30"}
    /\ vt_pc' = "top"
    /\ UNCHANGED << vt_started, vt_stopCalled, vt_ended, clientVars, notVto >>

\* stop(), lines 140-145
VtStop ==
    /\ vt_pc # "idle"
    /\ vt_started' = IF vt_started THEN FALSE ELSE vt_started
    /\ vt_stopCalled' = TRUE
    /\ UNCHANGED << vt_pc, vt_ended, clientVars, notVto >>

\* data_received for one message of the device: the handler registered under its id,
\* handle_default when there is none (line 98)
VDataReceived(kind, message_id) ==
    /\ vt_pc = "running" /\ v_transport = "open" /\ ~v_stopping
    /\ LET m == [id |-> message_id, kind |-> kind]
           handler == HandlerFor(v_handlers, message_id)
           c == AfterHandler(Client, FALSE, handler, m)
       IN /\ FreshChallenge(kind)
          /\ WithinBounds(c)
          /\ SetClient(c)
          /\ v_last' = [kind |-> kind, handler |-> handler,
                        delivered |-> CallsOfHandler(v_details, handler, m),
                        started |-> SubSeq(c.timers, Len(v_timers) + 1, Len(c.timers))]
    /\ UNCHANGED << v_transport, v_stopping, threadVtVars, notVto >>

\* a Timer started by handle_login or handle_keep_alive fires: keep_alive() in its thread
VTimerFires(i) ==
    /\ v_transport # "none"
    /\ i \in 1..Len(v_timers)
    /\ LET rest == SubSeq(v_timers, 1, i - 1) \o SubSeq(v_timers, i + 1, Len(v_timers))
           c == keep_alive([Client EXCEPT !.timers = rest], v_transport = "closing")
       IN /\ WithinBounds(c)
          /\ SetClient(c)
    /\ UNCHANGED << v_transport, v_stopping, v_last, threadVtVars, notVto >>

\* the host calls cancel_call() of the thread's vto_client, once on a connection
VCancelCall ==
    /\ v_transport # "none"
    /\ \A i \in DOMAIN v_handlers : v_handlers[i] # "cancel"
    /\ LET c == cancel_call(Client, v_transport = "closing")
       IN /\ WithinBounds(c)
          /\ SetClient(c)
    /\ UNCHANGED << v_transport, v_stopping, v_last, threadVtVars, notVto >>

\* eof_received(): loop.stop(); the transport closes itself as None is returned
VEofReceived ==
    /\ vt_pc = "running" /\ v_transport = "open" /\ ~v_stopping
    /\ v_stopping' = TRUE
    /\ v_transport' = "closing"
    /\ vt_ended' = "eof"
    /\ UNCHANGED << v_request_id, v_sessionId, v_realm, v_random, v_keep_alive_interval,
                    v_hold_time, v_details, v_handlers, v_timers, v_sent, v_chals,
                    v_authFailed, v_last, vt_pc, vt_started, vt_stopCalled, notVto >>

\* connection_lost(exc) after an error on the socket: loop.stop()
VConnectionLost ==
    /\ vt_pc = "running" /\ v_transport = "open" /\ ~v_stopping
    /\ v_stopping' = TRUE
    /\ v_transport' = "closing"
    /\ vt_ended' = "lost"
    /\ UNCHANGED << v_request_id, v_sessionId, v_realm, v_random, v_keep_alive_interval,
                    v_hold_time, v_details, v_handlers, v_timers, v_sent, v_chals,
                    v_authFailed, v_last, vt_pc, vt_started, vt_stopCalled, notVto >>

\* the thread is constructed and not started; there is no client yet
VtoInit ==
    /\ v_request_id = InitialRequestId /\ v_sessionId = 0 /\ v_realm = 0 /\ v_random = 0
    /\ v_keep_alive_interval = 0 /\ v_hold_time = 0
    /\ v_details = <<>> /\ v_handlers = <<>> /\ v_timers = <<>>
    /\ v_sent = <<>> /\ v_chals = <<>> /\ v_authFailed = FALSE
    /\ v_transport = "none" /\ v_stopping = FALSE /\ v_last = NoMessage
    /\ vt_pc = "idle" /\ vt_started = FALSE /\ vt_ended = "none" /\ vt_stopCalled = FALSE

VDevice ==
    \E message_id \in (DOMAIN v_handlers) \cup {0} :
        \E kind \in DeviceMessages(HandlerFor(v_handlers, message_id)) :
            VDataReceived(kind, message_id)

VTimer == \E i \in 1..MaxTimers : VTimerFires(i)

\* the answers of the device to the two global.login requests only
VDeviceAuth ==
    \E message_id \in DOMAIN v_handlers :
        /\ v_handlers[message_id] \in {"handle_pre_login", "handle_login"}
        /\ \E kind \in DeviceMessages(v_handlers[message_id]) :
               VDataReceived(kind, message_id)

\* one connection of the client and its device, from the start of the thread to the
\* EOF of the device and the Timers that fire after it
VtoNext ==
    \/ VtStart \/ VtRunBegin \/ VtConnect \/ VtConnected
    \/ VDevice \/ VTimer \/ VEofReceived

\* the thread and the host over any number of connections, the device answering the
\* logins only
VtoThreadNext ==
    \/ VtStart \/ VtRunBegin \/ VtExitAtTop \/ VtConnect \/ VtConnected
    \/ VtConnectFailed \/ VtLoopStopped \/ VtWake \/ VtStop
    \/ VDeviceAuth \/ VTimer \/ VCancelCall \/ VEofReceived \/ VConnectionLost

(***************************************************************************)
(* DahuaClient.stream_events and DahuaDataUpdateCoordinator.on_receive:    *)
(* one connection of the HTTP event stream.  The device's blocks gather in *)
(* the socket until iter_chunks hands them to on_receive as one chunk.     *)
(* "xx" is a byte that is no valid UTF-8; "i0", "i1" are the texts of the  *)
(* integers 0 and 1, "ix" a text that is no integer.                       *)
(***************************************************************************)
MaxStreamBlocks == 3

Channels == {0, 1}

StreamBlockNames == {"evStart0", "evStop0", "evStart1", "evIdxBad", "evUtf", "evBadJson",
                     "evCrossBad", "heartbeat", "cutHeader"}

\* the event names a binary sensor registered a listener for (add_dahua_event_listener)
ListenerNames == {<< "VideoMotion" >>}

\* data_bytes.decode("utf-8", errors="ignore"): invalid bytes are left out
Decode(data_bytes) == SelectSeq(data_bytes, LAMBDA b : b # "xx")

\* lines 458-463: index = 0; int(event["index"]) when the key is present, 0 on ValueError
EventIndex(event) ==
    IF << "index" >> \in DOMAIN event
    THEN CASE event[<< "index" >>] = << "i0" >> -> 0
           [] event[<< "index" >>] = << "i1" >> -> 1
           [] OTHER -> 0
    ELSE 0

\* get_event_key(event_name): "{0}-{1}".format(event_name, self._channel)
get_event_key(event_name, channel) == << event_name, channel >>

\* self._dahua_event_listeners.get(event_key) is not None
HasListener(event_name) == event_name \in ListenerNames

\* translate_event_code(event): [raised, code]; data.get raises when data is a str
translate_event_code(event) ==
    LET code == IF << "Code" >> \in DOMAIN event THEN event[<< "Code" >>] ELSE <<>>
        has_data == << "data" >> \in DOMAIN event
        is_dict == has_data /\ Head(event[<< "data" >>]) = "json"
        is_human == is_dict /\ event[<< "data" >>] = << "json", "JH" >>
    IN IF code \in {<< "CrossLineDetection" >>, << "CrossRegionDetection" >>}
       THEN IF has_data /\ ~is_dict THEN [raised |-> TRUE, code |-> code]
            ELSE IF is_human /\ ~HasListener(code)
                 THEN [raised |-> FALSE, code |-> << "SmartMotionHuman" >>]
                 ELSE [raised |-> FALSE, code |-> code]
       ELSE IF code \in {<< "BackKeyLight" >>, << "PhoneCallDetect" >>}
            THEN [raised |-> FALSE, code |-> << "DoorbellPressed" >>]
            ELSE [raised |-> FALSE, code |-> code]

\* int(time.time()) of a firing
TimeOfFiring == 1

RECURSIVE OnReceiveEvents_lastFirst(_, _, _, _, _)
\* a loop that fires the later events of the chunk before the earlier ones
OnReceiveEvents_lastFirst(events, i, channel, n, st) ==
    IF i > Len(events) THEN st
    ELSE LET rest == OnReceiveEvents_lastFirst(events, i + 1, channel, n, st) IN
         IF EventIndex(events[i]) # channel THEN rest
         ELSE [rest EXCEPT !.bus = Append(@, [chunk |-> n, pos |-> i, event |-> events[i]])]

RECURSIVE OnReceiveEvents(_, _, _, _, _)
\* lines 457-491: for event in events; st is [bus, timestamp, calls, err], n the number
\* of the chunk; an exception ends the call
OnReceiveEvents(events, i, channel, n, st) ==
    IF i > Len(events) THEN st
    ELSE LET event == events[i] IN
         IF EventIndex(event) # channel
         THEN OnReceiveEvents(events, i + 1, channel, n, st)
         ELSE LET fired == [st EXCEPT !.bus = Append(@, [chunk |-> n, pos |-> i, event |-> event])]
                  tr == translate_event_code(event)
                  event_key == get_event_key(tr.code, channel)
              IN IF tr.raised THEN [fired EXCEPT !.err = "AttributeError"]
                 ELSE IF ~HasListener(tr.code)
                 THEN OnReceiveEvents(events, i + 1, channel, n, fired)
                 ELSE IF << "action" >> \notin DOMAIN event
                 THEN [fired EXCEPT !.err = "KeyError"]
                 ELSE IF event[<< "action" >>] = << "Start" >>
                 THEN OnReceiveEvents(events, i + 1, channel, n,
                          [fired EXCEPT !.timestamp = Put(@, event_key, TimeOfFiring),
                                        !.calls = Append(@, event_key)])
                 ELSE IF event[<< "action" >>] = << "Stop" >>
                 THEN OnReceiveEvents(events, i + 1, channel, n,
                          [fired EXCEPT !.timestamp = Put(@, event_key, 0),
                                        !.calls = Append(@, event_key)])
                 ELSE OnReceiveEvents(events, i + 1, channel, n, fired)

\* on_receive(data_bytes, channel): [bus, timestamp, calls, err, events]
on_receive(data_bytes, channel, n, bus, timestamp, calls) ==
    LET parsed == parse_event(Decode(data_bytes))
        st == [bus |-> bus, timestamp |-> timestamp, calls |-> calls, err |-> "none"]
    IN IF parsed.err # "none"
       THEN [bus |-> bus, timestamp |-> timestamp, calls |-> calls, err |-> parsed.err,
             events |-> <<>>]
       ELSE LET r == OnReceiveEvents(parsed.events, 1, channel, n, st) IN
            [bus |-> r.bus, timestamp |-> r.timestamp, calls |-> r.calls, err |-> r.err,
             events |-> parsed.events]

\* stream_events: the request is answered with the stream (lines 680-683)
StOpen ==
    /\ st_pc = "idle"
    /\ st_pc' = "open"
    /\ UNCHANGED << st_channel, st_pending, st_data, st_chunks, st_bus, st_timestamp,
                    st_calls, st_last, notStream >>

RECURSIVE BlocksIn(_)
\* the number of blocks in a sequence of chunks
BlocksIn(chunks) == IF chunks = <<>> THEN 0 ELSE Len(Head(chunks)) + BlocksIn(Tail(chunks))

\* the device sends one more block behind its boundary line
StSendBlock(name) ==
    /\ st_pc = "open"
    /\ Len(st_pending) + BlocksIn(st_chunks) < MaxStreamBlocks
    /\ st_pending' = Append(st_pending, name)
    /\ st_data' = st_data \o << "B" >> \o BlockText(name)
    /\ UNCHANGED << st_pc, st_channel, st_chunks, st_bus, st_timestamp, st_calls, st_last,
                    notStream >>

\* iter_chunks yields what arrived and on_receive(data, channel) runs (lines 686-687);
\* its exception leaves the loop: except ... pass, finally response.close() (688-692)
StOnReceive ==
    /\ st_pc = "open"
    /\ st_pending # <<>>
    /\ LET r == on_receive(st_data, st_channel, Len(st_chunks) + 1, st_bus, st_timestamp,
                           st_calls)
       IN /\ st_bus' = r.bus
          /\ st_timestamp' = r.timestamp
          /\ st_calls' = r.calls
          /\ st_last' = [err |-> r.err, events |-> r.events, bus_before |-> Len(st_bus)]
          /\ st_pc' = IF r.err = "none" THEN "open" ELSE "closed"
    /\ st_chunks' = Append(st_chunks, st_pending)
    /\ st_pending' = <<>>
    /\ st_data' = <<>>
    /\ UNCHANGED << st_channel, notStream >>

\* the device ends the stream: the loop of iter_chunks ends, response.close()
StEnd ==
    /\ st_pc = "open"
    /\ st_pending = <<>>
    /\ st_pc' = "closed"
    /\ UNCHANGED << st_channel, st_pending, st_data, st_chunks, st_bus, st_timestamp,
                    st_calls, st_last, notStream >>

StreamStart ==
    /\ st_pc = "idle"
    /\ st_pending = <<>> /\ st_data = <<>> /\ st_chunks = <<>>
    /\ st_bus = <<>> /\ st_timestamp = <<>> /\ st_calls = <<>>
    /\ st_last = [err |-> "none", events |-> <<>>, bus_before |-> 0]

\* the coordinator is constructed for a channel
StreamInit == st_channel \in Channels /\ StreamStart

\* the state of this part while the other parts run
StreamIdle == st_channel = 0 /\ StreamStart

StreamNext ==
    \/ StOpen
    \/ \E name \in StreamBlockNames : StSendBlock(name)
    \/ StOnReceive
    \/ StEnd

(***************************************************************************)
(* DahuaClient.get, parse_dahua_api_response and the operations that send  *)
(* a configManager setConfig request.  The response body is a text of the  *)
(* words "OK", "ok" and "Er" (any other word), '=', ' ', "N" and "R".      *)
(***************************************************************************)
MaxChars == 4

ApChars == {"OK", "ok", "Er", "=", " ", "N", "R"}

\* str.lower()
Lower(s) == [i \in 1..Len(s) |-> CASE s[i] = "OK" -> "ok" [] s[i] = "Er" -> "er" [] OTHER -> s[i]]

\* the first line break of s, 0 when it has none
FirstBreak(s) ==
    IF \E i \in 1..Len(s) : s[i] \in {"N", "R"}
    THEN CHOOSE i \in 1..Len(s) : s[i] \in {"N", "R"} /\ \A j \in 1..(i - 1) : s[j] \notin {"N", "R"}
    ELSE 0

RECURSIVE splitlines(_)
\* str.splitlines(): "\n", "\r" and "\r\n" end a line; no empty line after the last break
splitlines(s) ==
    IF s = <<>> THEN <<>>
    ELSE LET brk == FirstBreak(s) IN
         IF brk = 0 THEN << s >>
         ELSE LET last == IF s[brk] = "R" /\ brk < Len(s) /\ s[brk + 1] = "N"
                          THEN brk + 1 ELSE brk
              IN << SubSeq(s, 1, brk - 1) >> \o splitlines(SubSeq(s, last + 1, Len(s)))

\* a loop body that cuts the line at every '='
ParseLine_everyEq(line) ==
    LET parts == Split(line, "=") IN
    IF Len(parts) = 2 THEN [key |-> parts[1], value |-> parts[2]]
    ELSE [key |-> parts[1], value |-> line]

\* lines 707-712: parts = line.split("=", 1); the key and the value stored for the line
ParseLine(line) ==
    LET parts == SplitMax(line, "=", 1) IN
    IF Len(parts) = 2 THEN [key |-> parts[1], value |-> parts[2]]
    ELSE [key |-> parts[1], value |-> line]

RECURSIVE ParseLines(_, _)
\* lines 706-712: for line in lines, into data_dict
ParseLines(lines, data_dict) ==
    IF lines = <<>> THEN data_dict
    ELSE LET e == ParseLine(Head(lines)) IN
         ParseLines(Tail(lines), Put(data_dict, e.key, e.value))

\* parse_dahua_api_response(data)
parse_dahua_api_response(data) == ParseLines(splitlines(data), <<>>)

\* get(url, verify_ok): [raised, value]; raise_for_status() raises on an HTTP error,
\* and with verify_ok a body that is not "ok" after lower() and strip() raises
get(data, http_ok, verify_ok) ==
    IF ~http_ok THEN [raised |-> "ClientResponseError", value |-> <<>>]
    ELSE IF verify_ok /\ Strip(Lower(data)) # << "ok" >>
    THEN [raised |-> "Exception", value |-> <<>>]
    ELSE [raised |-> "none", value |-> parse_dahua_api_response(data)]

\* the operations that call self.get(url, True)
VerifyOkOps == {"async_set_ivs_rule", "async_enabled_smart_motion_detection",
                "async_set_light_global_enabled", "async_set_video_profile_mode",
                "async_set_night_switch_mode"}

\* the operations that look for the key "OK" or "ok" in the dict get returned
KeyCheckOps == {"async_enable_channel_title", "async_enable_time_overlay",
                "async_set_video_in_day_night_mode"}

\* the operations that return what self.get(url) returned
UncheckedOps == {"async_set_lighting_v1_mode", "async_set_lighting_v2",
                 "async_set_disarming_linkage", "async_set_record_mode"}

SetConfigOps == VerifyOkOps \cup KeyCheckOps \cup UncheckedOps

\* one setConfig operation on a device that answers with the body data
SetConfig(op, data, http_ok) ==
    IF op \in VerifyOkOps THEN get(data, http_ok, TRUE)
    ELSE LET value == get(data, http_ok, FALSE) IN
         IF op \in KeyCheckOps /\ value.raised = "none"
         THEN IF << "OK" >> \notin DOMAIN value.value /\ << "ok" >> \notin DOMAIN value.value
              THEN [raised |-> "Exception", value |-> <<>>]
              ELSE [raised |-> "none", value |-> <<>>]
         ELSE value

\* the device writes one more piece of its response body
ApWrite(ch) ==
    /\ ap_pc = "wait"
    /\ Len(ap_data) < MaxChars
    /\ ap_data' = Append(ap_data, ch)
    /\ UNCHANGED << ap_pc, ap_result, notApi >>

\* parse_dahua_api_response is called with the body
ApParse ==
    /\ ap_pc = "wait"
    /\ ap_result' = [op |-> "parse_dahua_api_response", http_ok |-> TRUE, raised |-> "none",
                     value |-> parse_dahua_api_response(ap_data)]
    /\ ap_pc' = "done"
    /\ UNCHANGED << ap_data, notApi >>

\* a setConfig operation is called and the device answers it with the body
ApSetConfig(op, http_ok) ==
    /\ ap_pc = "wait"
    /\ LET r == SetConfig(op, ap_data, http_ok) IN
       ap_result' = [op |-> op, http_ok |-> http_ok, raised |-> r.raised, value |-> r.value]
    /\ ap_pc' = "done"
    /\ UNCHANGED << ap_data, notApi >>

ApiInit ==
    /\ ap_pc = "wait"
    /\ ap_data = <<>>
    /\ ap_result = [op |-> "none", http_ok |-> TRUE, raised |-> "none", value |-> <<>>]

\* the state of this part while the other parts run
ApiIdle == ApiInit

ApiNext ==
    \/ \E ch \in ApChars : ApWrite(ch)
    \/ ApParse
    \/ \E op \in SetConfigOps, http_ok \in BOOLEAN : ApSetConfig(op, http_ok)

(***************************************************************************)
(* DahuaDataUpdateCoordinator._async_update_data_int: the one-time         *)
(* initialization, one step for each request it awaits, and the periodic   *)
(* refresh behind it.  A request ends "ok" or with an error;               *)
(* ClientResponseError (an HTTP status), ClientConnectorError and          *)
(* ServerDisconnectedError are aiohttp ClientErrors, TimeoutError and      *)
(* KeyError are not.                                                       *)
(***************************************************************************)
Errors == {"ClientResponseError", "ClientConnectorError", "ServerDisconnectedError",
           "TimeoutError", "KeyError"}

Outcomes == {"ok"} \cup Errors

IsClientError(e) ==
    e \in {"ClientResponseError", "ClientConnectorError", "ServerDisconnectedError"}

\* what is absent from an answer (None)
None == << "None" >>

\* the devices: deviceType and updateSerial as getSystemInfo reports them, type as
\* getDeviceType does, each a text of words
Devices ==
    { [deviceType |-> << "IPC" >>, updateSerial |-> << "IPC" >>, type |-> << "IPC" >>],
      [deviceType |-> << "VTO" >>, updateSerial |-> None, type |-> << "VTO" >>],
      [deviceType |-> << "vto" >>, updateSerial |-> None, type |-> << "vto" >>],
      [deviceType |-> << "31" >>, updateSerial |-> << "DHI", "NVR" >>, type |-> << "31" >>],
      [deviceType |-> << "IP Camera" >>, updateSerial |-> << "DHI", "VTH" >>,
       type |-> << "IPC" >>],
      [deviceType |-> None, updateSerial |-> None, type |-> << "AD" >>] }

\* lines 221-236: the model, from deviceType, else updateSerial, else get_device_type(),
\* which answers a ClientResponseError with "Generic RTSP"; a ClientResponseError of
\* getSystemInfo leaves data without deviceType and updateSerial
NeedsDeviceType(device, info_outcome) ==
    LET deviceType == IF info_outcome = "ok" THEN device.deviceType ELSE None
        updateSerial == IF info_outcome = "ok" THEN device.updateSerial ELSE None
    IN (deviceType \in {<< "IP Camera" >>, << "31" >>, None}) /\ updateSerial = None

ModelOf(device, info_outcome, type_outcome) ==
    LET deviceType == IF info_outcome = "ok" THEN device.deviceType ELSE None
        updateSerial == IF info_outcome = "ok" THEN device.updateSerial ELSE None
    IN IF deviceType \in {<< "IP Camera" >>, << "31" >>, None}
       THEN IF updateSerial = None
            THEN IF type_outcome = "ok" THEN device.type ELSE << "Generic RTSP" >>
            ELSE updateSerial
       ELSE deviceType

\* str.upper()
Upper(s) == [i \in 1..Len(s) |-> IF s[i] = "vto" THEN "VTO" ELSE s[i]]

\* is_amcrest_doorbell()
is_amcrest_doorbell(model) == StartsWith(Upper(model), << "AD" >>)

\* is_doorbell()
is_doorbell(model) ==
    LET m == Upper(model) IN
    \/ StartsWith(m, << "VTO" >>)
    \/ StartsWith(m, << "DH-VTO" >>)
    \/ ((~ \E i \in 1..Len(m) : m[i] = "NVR") /\ StartsWith(m, << "DHI" >>))
    \/ is_amcrest_doorbell(model)

NoCause == [step |-> "none", error |-> "none"]

NoProbe == [step |-> "none", outcome |-> "none"]

\* lines 297-305: ClientConnectorError and asyncio.TimeoutError are raised again, every
\* other exception becomes PlatformNotReady
Raised(error) ==
    IF error \in {"ClientConnectorError", "TimeoutError"} THEN error ELSE "PlatformNotReady"

\* what no step of the initialization writes
inFixed == << in_channel, in_device, in_profile_mode, in_writers >>

\* the run goes on to its next request
Advance(next, supports) ==
    /\ in_pc' = next
    /\ in_supports' = supports
    /\ UNCHANGED << in_initialized, in_cause, in_raised, in_session >>

\* the run ends in one of the outer except clauses, were the session left as it is
Abort_keepSession(step, error) ==
    /\ in_pc' = "failed"
    /\ in_cause' = [step |-> step, error |-> error]
    /\ in_raised' = Raised(error)
    /\ UNCHANGED << in_supports, in_initialized, in_session >>

\* the run ends in one of the outer except clauses, and _async_update_data (lines
\* 185-193) closes the session before it raises again
Abort(step, error) ==
    /\ in_pc' = "failed"
    /\ in_session' = "closed"
    /\ in_cause' = [step |-> step, error |-> error]
    /\ in_raised' = Raised(error)
    /\ UNCHANGED << in_supports, in_initialized >>

\* line 200: the coordinator is refreshed while not initialized
InStart ==
    /\ in_pc \in {"new", "failed"}
    /\ ~in_initialized
    /\ in_pc' = "snapshot"
    /\ in_snapshot' = "none"
    /\ in_probe' = NoProbe
    /\ in_cause' = NoCause
    /\ in_raised' = "none"
    /\ UNCHANGED << inFixed, in_channel_number, in_max_streams, in_initialized, in_model,
                    in_machine_name, in_supports, in_listener, in_session, notInit >>

\* lines 202-207: async_get_snapshot(0), except ClientError: pass
InSnapshot(outcome) ==
    /\ in_pc = "snapshot"
    /\ in_snapshot' = outcome
    /\ in_probe' = [step |-> "snapshot", outcome |-> outcome]
    /\ in_channel_number' = IF outcome = "ok" THEN in_channel ELSE in_channel_number
    /\ IF outcome = "ok" \/ IsClientError(outcome)
       THEN Advance("max_streams", in_supports)
       ELSE Abort("snapshot", outcome)
    /\ UNCHANGED << inFixed, in_max_streams, in_model, in_machine_name, in_listener,
                    notInit >>

\* client.py line 146: what get_max_extra_streams() returns when the query raised
\* ClientResponseError
MaxExtraStreams == 3

\* client.py line 142: the text used when the answer has no table.MaxExtraStreams key
DefaultExtraStreams == 2

\* __init__.py line 129: _max_streams before any initialization
DefaultMaxStreams == 3

\* what the device may say under table.MaxExtraStreams: nothing, a number, other text
ReportedStreams == {"absent", "1", "x"}

\* int() of a text: the number it spells, ValueError for any other text
IntOf(text) ==
    IF text = "1" THEN [raised |-> "none", value |-> 1]
    ELSE [raised |-> "ValueError", value |-> 0]

\* client.py lines 138-146: the answer's number, 2 when the key is missing, 3 after a
\* ClientResponseError; any other failure of the request, and int()'s ValueError, leave
\* the method
get_max_extra_streams(outcome, reported) ==
    IF outcome = "ok"
    THEN IF reported = "absent"
         THEN [raised |-> "none", value |-> DefaultExtraStreams]
         ELSE IntOf(reported)
    ELSE IF outcome = "ClientResponseError"
         THEN [raised |-> "none", value |-> MaxExtraStreams]
         ELSE [raised |-> outcome, value |-> 0]

\* lines 210-212: _max_streams = get_max_extra_streams() + 1
InMaxStreams(outcome, reported) ==
    /\ in_pc = "max_streams"
    /\ in_probe' = [step |-> "max_streams", outcome |-> outcome]
    /\ LET r == get_max_extra_streams(outcome, reported) IN
       IF r.raised = "none"
       THEN Advance("machine_name", in_supports) /\ in_max_streams' = r.value + 1
       ELSE Abort("max_streams", r.raised) /\ UNCHANGED in_max_streams
    /\ UNCHANGED << inFixed, in_channel_number, in_model, in_machine_name, in_listener,
                    in_snapshot, notInit >>

\* line 214: async_get_machine_name() returns nothing after a ClientResponseError
InMachineName(outcome) ==
    /\ in_pc = "machine_name"
    /\ IF outcome \in {"ok", "ClientResponseError"}
       THEN /\ Advance("system_info", in_supports)
            /\ in_machine_name' = IF outcome = "ok" THEN "dict" ELSE "None"
       ELSE /\ Abort("machine_name", outcome)
            /\ UNCHANGED in_machine_name
    /\ UNCHANGED << inFixed, in_channel_number, in_max_streams, in_model, in_listener,
                    in_snapshot, in_probe, notInit >>

\* lines 215-238: system info and version (ClientResponseError handled by the client),
\* data.update(machine_name) raises TypeError on None, get_device_type() when the model
\* is not known yet, self.model = device_type
InSystemInfo(outcome, type_outcome) ==
    /\ in_pc = "system_info"
    /\ IF outcome \notin {"ok", "ClientResponseError"}
       THEN Abort("system_info", outcome) /\ UNCHANGED in_model
       ELSE IF in_machine_name = "None"
       THEN Abort("system_info", "TypeError") /\ UNCHANGED in_model
       ELSE IF NeedsDeviceType(in_device, outcome)
               /\ type_outcome \notin {"ok", "ClientResponseError"}
       THEN Abort("system_info", type_outcome) /\ UNCHANGED in_model
       ELSE Advance("coaxial", in_supports)
            /\ in_model' = ModelOf(in_device, outcome, type_outcome)
    /\ UNCHANGED << inFixed, in_channel_number, in_max_streams, in_machine_name,
                    in_listener, in_snapshot, in_probe, notInit >>

\* lines 240-245: async_get_coaxial_control_io_status(), except ClientResponseError
InCoaxial(outcome) ==
    /\ in_pc = "coaxial"
    /\ in_probe' = [step |-> "coaxial", outcome |-> outcome]
    /\ IF outcome = "ok"
       THEN Advance("disarming", [in_supports EXCEPT !.coaxial_control = TRUE])
       ELSE IF outcome = "ClientResponseError"
       THEN Advance("disarming", [in_supports EXCEPT !.coaxial_control = FALSE])
       ELSE Abort("coaxial", outcome)
    /\ UNCHANGED << inFixed, in_channel_number, in_max_streams, in_model, in_machine_name,
                    in_listener, in_snapshot, notInit >>

\* lines 247-252: async_get_disarming_linkage() answers a ClientResponseError with a
\* dict of its own; except ClientError
InDisarming(outcome) ==
    /\ in_pc = "disarming"
    /\ in_probe' = [step |-> "disarming", outcome |-> outcome]
    /\ IF outcome \in {"ok", "ClientResponseError"}
       THEN Advance("smart_motion", [in_supports EXCEPT !.disarming_linkage = TRUE])
       ELSE IF IsClientError(outcome)
       THEN Advance("smart_motion", [in_supports EXCEPT !.disarming_linkage = FALSE])
       ELSE Abort("disarming", outcome)
    /\ UNCHANGED << inFixed, in_channel_number, in_max_streams, in_model, in_machine_name,
                    in_listener, in_snapshot, notInit >>

\* lines 256-261: async_get_smart_motion_detection(), except ClientError
InSmartMotion(outcome) ==
    /\ in_pc = "smart_motion"
    /\ in_probe' = [step |-> "smart_motion", outcome |-> outcome]
    /\ IF outcome = "ok"
       THEN Advance("lighting", [in_supports EXCEPT !.smart_motion_detection = TRUE])
       ELSE IF IsClientError(outcome)
       THEN Advance("lighting", [in_supports EXCEPT !.smart_motion_detection = FALSE])
       ELSE Abort("smart_motion", outcome)
    /\ UNCHANGED << inFixed, in_channel_number, in_max_streams, in_model, in_machine_name,
                    in_listener, in_snapshot, notInit >>

\* lines 269-275: async_get_config_lighting(); async_get_config answers a
\* ClientResponseError with {}; except ClientError
InLighting(outcome) ==
    /\ in_pc = "lighting"
    /\ in_probe' = [step |-> "lighting", outcome |-> outcome]
    /\ IF outcome \in {"ok", "ClientResponseError"}
       THEN Advance("listener", [in_supports EXCEPT !.lighting = TRUE])
       ELSE IF IsClientError(outcome)
       THEN Advance("listener", [in_supports EXCEPT !.lighting = FALSE])
       ELSE Abort("lighting", outcome)
    /\ UNCHANGED << inFixed, in_channel_number, in_max_streams, in_model, in_machine_name,
                    in_listener, in_snapshot, notInit >>

\* the thread async_start_event_listener starts for a camera ...
ListenerOfCamera == "http"

\* ... and the one async_start_vto_event_listener starts for a doorbell
ListenerOfDoorbell == "vto"

\* lines 277-279 and 292-296: the event thread of the device is started (Thread.start()
\* raises RuntimeError the second time); a doorbell is initialized by now
InListener ==
    /\ in_pc = "listener"
    /\ LET thread == IF is_doorbell(in_model) THEN ListenerOfDoorbell ELSE ListenerOfCamera IN
       IF thread \in in_listener
       THEN Abort("listener", "RuntimeError") /\ UNCHANGED in_listener
       ELSE /\ in_listener' = in_listener \cup {thread}
            /\ IF is_doorbell(in_model)
               THEN /\ in_pc' = "done"
                    /\ in_initialized' = TRUE
                    /\ UNCHANGED << in_supports, in_cause, in_raised, in_session >>
               ELSE Advance("profile", in_supports)
    /\ UNCHANGED << inFixed, in_channel_number, in_max_streams, in_model, in_machine_name,
                    in_snapshot, in_probe, notInit >>

\* lines 281-296: async_get_config("Lighting[0][2]"), which answers a ClientResponseError
\* with {}; len(conf) > 1, except ClientError; self.initialized = True
InProfile(outcome, many_lines) ==
    /\ in_pc = "profile"
    /\ in_probe' = [step |-> "profile", outcome |-> outcome]
    /\ IF outcome = "ok" \/ IsClientError(outcome)
       THEN /\ in_pc' = "done"
            /\ in_initialized' = TRUE
            /\ in_supports' = [in_supports EXCEPT !.profile_mode = (outcome = "ok" /\ many_lines)]
            /\ UNCHANGED << in_cause, in_raised, in_session >>
       ELSE Abort("profile", outcome)
    /\ UNCHANGED << inFixed, in_channel_number, in_max_streams, in_model, in_machine_name,
                    in_listener, in_snapshot, notInit >>

\* what table.VideoInMode[0].Config[0] can be in the answer of async_get_video_in_mode:
\* a mode, the empty text, or "absent" when the answer has no such line
ProfileModes == {"0", "1", "", "absent"}

\* mode_data.get(key, "0") alone, without the test of lines 315-316
ProfileModeOf_getOnly(mode) == IF mode = "absent" THEN "0" ELSE mode

\* lines 314-316: mode_data.get(key, "0"), and "0" for an empty value
ProfileModeOf(mode) == IF mode \in {"", "absent"} THEN "0" ELSE mode

\* lines 307-356: a periodic refresh of the initialized coordinator; an error of
\* async_get_video_in_mode is ignored, an error of the other requests is UpdateFailed,
\* after which _async_update_data closes the session; no request of a closed session
\* succeeds
InRefresh(outcome, mode, synced) ==
    /\ in_pc = "done"
    /\ in_session = "closed" => ~synced
    /\ in_session' = IF synced THEN in_session ELSE "closed"
    /\ in_profile_mode' =
           IF in_supports.profile_mode /\ ~is_doorbell(in_model) /\ outcome = "ok"
           THEN ProfileModeOf(mode) ELSE in_profile_mode
    /\ in_raised' = IF synced THEN "none" ELSE "UpdateFailed"
    /\ UNCHANGED << in_pc, in_channel, in_device, in_writers, in_channel_number, in_max_streams,
                    in_initialized, in_model, in_machine_name, in_supports, in_listener,
                    in_snapshot, in_probe, in_cause, notInit >>

\* the execution context of the callback of a started event thread: on_receive runs on
\* the loop of the host (thread.py line 41), on_receive_vto_event in the VTO thread
ContextOf(thread) == IF thread = "http" THEN "host_loop" ELSE "vto_thread"

\* an event written for a thread that was never started
InEvent_anyThread(thread) ==
    /\ in_writers' = in_writers \cup {ContextOf(thread)}
    /\ UNCHANGED << in_pc, in_channel, in_device, in_profile_mode, in_channel_number, in_max_streams,
                    in_initialized, in_model, in_machine_name, in_supports, in_listener,
                    in_snapshot, in_probe, in_cause, in_raised, in_session, notInit >>

\* lines 406-428 and 485-491: a started event thread delivers a Start or Stop event and
\* its callback writes self._dahua_event_timestamp
InEvent(thread) ==
    /\ thread \in in_listener
    /\ in_writers' = in_writers \cup {ContextOf(thread)}
    /\ UNCHANGED << in_pc, in_channel, in_device, in_profile_mode, in_channel_number, in_max_streams,
                    in_initialized, in_model, in_machine_name, in_supports, in_listener,
                    in_snapshot, in_probe, in_cause, in_raised, in_session, notInit >>

\* __init__, lines 116-156
CoordinatorStart ==
    /\ in_pc = "new"
    /\ in_channel_number = in_channel + 1
    /\ in_max_streams = DefaultMaxStreams
    /\ in_profile_mode = "0"
    /\ in_initialized = FALSE
    /\ in_model = <<>>
    /\ in_machine_name = "dict"
    /\ in_supports = [coaxial_control |-> FALSE, disarming_linkage |-> FALSE,
                      smart_motion_detection |-> FALSE, lighting |-> FALSE,
                      profile_mode |-> FALSE]
    /\ in_listener = {}
    /\ in_writers = {}
    /\ in_snapshot = "none"
    /\ in_probe = NoProbe
    /\ in_cause = NoCause
    /\ in_raised = "none"
    /\ in_session = "open"

\* a coordinator for a channel of one of the devices
CoordinatorInit == in_channel \in Channels /\ in_device \in Devices /\ CoordinatorStart

\* the state of this part while the other parts run
CoordinatorIdle ==
    /\ in_channel = 0
    /\ in_device = [deviceType |-> << "IPC" >>, updateSerial |-> << "IPC" >>, type |-> << "IPC" >>]
    /\ CoordinatorStart

\* what a request of the client can end with: a closed ClientSession raises
\* RuntimeError("Session is closed") whatever the device would answer
SessionClosed == "RuntimeError"

\* the answers, were a closed session still to carry requests
Answers_ignoringSession == Outcomes

Answers == IF in_session = "closed" THEN {SessionClosed} ELSE Outcomes

CoordinatorNext ==
    \/ InStart
    \/ \E outcome \in Answers : InSnapshot(outcome)
    \/ \E outcome \in Answers, reported \in ReportedStreams : InMaxStreams(outcome, reported)
    \/ \E outcome \in Answers : InMachineName(outcome)
    \/ \E outcome \in Answers, type_outcome \in Answers : InSystemInfo(outcome, type_outcome)
    \/ \E outcome \in Answers : InCoaxial(outcome)
    \/ \E outcome \in Answers : InDisarming(outcome)
    \/ \E outcome \in Answers : InSmartMotion(outcome)
    \/ \E outcome \in Answers : InLighting(outcome)
    \/ InListener
    \/ \E outcome \in Answers, many_lines \in BOOLEAN : InProfile(outcome, many_lines)
    \/ \E outcome \in Answers, mode \in ProfileModes, synced \in BOOLEAN :
           InRefresh(outcome, mode, synced)
    \/ \E thread \in {"http", "vto"} : InEvent(thread)

(***************************************************************************)
(* The password hash of global.login: vto.py lines 380-390 and rpc2.py     *)
(* lines 96-104. A text is a sequence of characters; MD5 is an injective    *)
(* function of its input.                                                  *)
(***************************************************************************)
MaxField == 1

\* the characters of a user name, password, realm or random
FieldChars == {"a", ":"}

\* the texts of at most MaxField characters
Fields == UNION {[1..n -> FieldChars] : n \in 0..MaxField}

\* hashlib.md5(b).hexdigest().upper(): the digest of the bytes, as a text
MD5Upper(bytes) == << "MD5(" >> \o bytes \o << ")" >>

\* the byte of an ASCII character (a character of a digest stands for its own byte)
ByteOf(ch) == CASE ch = "a" -> "0x61" [] ch = ":" -> "0x3A" [] OTHER -> ch

\* str.encode('utf-8')
EncodeUtf8(text) == [i \in 1..Len(text) |-> ByteOf(text[i])]

\* vto.py lines 380-390
get_hashed_password(random, realm, username, password) ==
    LET password_str == username \o << ":" >> \o realm \o << ":" >> \o password
        password_hash == MD5Upper(EncodeUtf8(password_str))
        random_str == username \o << ":" >> \o random \o << ":" >> \o password_hash
    IN MD5Upper(EncodeUtf8(random_str))

\* the second phrase built with the realm where the random belongs
pass_hash_realmTwice(username, password, realm, random) ==
    LET pwd_phrase == username \o << ":" >> \o realm \o << ":" >> \o password
        pwd_hash == MD5Upper(EncodeUtf8(pwd_phrase))
        pass_phrase == username \o << ":" >> \o realm \o << ":" >> \o pwd_hash
    IN MD5Upper(EncodeUtf8(pass_phrase))

\* rpc2.py lines 96-104: pass_hash from self._username, self._password and the realm and
\* random of the first response
pass_hash(username, password, realm, random) ==
    LET pwd_phrase == username \o << ":" >> \o realm \o << ":" >> \o password
        pwd_hash == MD5Upper(EncodeUtf8(pwd_phrase))
        pass_phrase == username \o << ":" >> \o random \o << ":" >> \o pwd_hash
    IN MD5Upper(EncodeUtf8(pass_phrase))

NotComputed == << >>

\* vto.py line 377-390: the VTO client hashes the password for its login
HashVto ==
    /\ hp_vto = NotComputed
    /\ hp_vto' = get_hashed_password(hp_inputs.random, hp_inputs.realm,
                                     hp_inputs.username, hp_inputs.password)
    /\ UNCHANGED << hp_inputs, hp_rpc2, notHash >>

\* rpc2.py lines 96-104: the RPC2 client hashes the password for its login
HashRpc2 ==
    /\ hp_rpc2 = NotComputed
    /\ hp_rpc2' = pass_hash(hp_inputs.username, hp_inputs.password,
                            hp_inputs.realm, hp_inputs.random)
    /\ UNCHANGED << hp_inputs, hp_vto, notHash >>

HashStart == hp_vto = NotComputed /\ hp_rpc2 = NotComputed

HashInit ==
    /\ hp_inputs \in [username : Fields, password : Fields, realm : Fields, random : Fields]
    /\ HashStart

HashIdle ==
    /\ hp_inputs = [username |-> << >>, password |-> << >>, realm |-> << >>, random |-> << >>]
    /\ HashStart

HashNext == HashVto \/ HashRpc2

(***************************************************************************)
(* DahuaRpc2Client (rpc2.py): request, login, logout and the queries.      *)
(* The value of the local variable data is a dict (the RPC request) or the *)
(* bytes read from the socket of port 37777.                               *)
(***************************************************************************)
MaxRpcId == 5

\* self._username and self._password
Rpc2Username == << "a" >>
Rpc2Password == << "a", ":" >>

NoSession == "None"

\* how the exchange on the socket of lines 55-61 ends: connect or sendall raises OSError,
\* or recv returns the bytes the device sent (none when it closed the connection)
SocketOutcomes ==
    { [error |-> "OSError", reply |-> << >>],
      [error |-> "none", reply |-> << >>],
      [error |-> "none", reply |-> << "x" >>] }

\* the answers of the device to a posted request
Rpc2Responses ==
    [result : BOOLEAN, session : {"s1"}, realm : {<< "a" >>}, random : {<< ":" >>}]

NoResponse == [result |-> FALSE, session |-> NoSession, realm |-> << >>, random |-> << >>]

\* json.dumps(data) raises TypeError unless data is a dict of texts and numbers
JsonSerializable(data) == data.kind = "dict"

\* request(), lines 39-73: [client, hello, posted, raised, response]
request(c, method, params, url, verify_result, sock, resp) ==
    LET id == c.id + 1
        body == [method |-> method, id |-> id, params |-> params, session |-> c.session_id]
        sent == [c EXCEPT !.id = id]
        \* line 59: data = s.recv(1024)
        data == [kind |-> "bytes", value |-> sock.reply]
    IN IF sock.error # "none"
       THEN [client |-> sent, hello |-> 0, posted |-> << >>, raised |-> sock.error,
             response |-> NoResponse]
       ELSE IF ~JsonSerializable(data)
       THEN [client |-> sent, hello |-> 1, posted |-> << >>, raised |-> "TypeError",
             response |-> NoResponse]
       ELSE IF verify_result /\ ~resp.result
       THEN [client |-> sent, hello |-> 1, posted |-> << [url |-> url, body |-> data.value] >>,
             raised |-> "ConnectionError", response |-> NoResponse]
       ELSE [client |-> sent, hello |-> 1, posted |-> << [url |-> url, body |-> data.value] >>,
             raised |-> "none", response |-> resp]

\* the params of global.login
LoginParams(password) == [userName |-> Rpc2Username, password |-> password]

NoParams == [userName |-> << >>, password |-> << >>]

Rpc2Client == [id |-> r2_id, session_id |-> r2_session_id]

\* what an operation leaves behind
Rpc2Done(op, c, hello, posted, raised, returned) ==
    /\ r2_id' = c.id
    /\ r2_session_id' = c.session_id
    /\ r2_hello' = r2_hello + hello
    /\ r2_posted' = r2_posted \o posted
    /\ r2_last' = [op |-> op, raised |-> raised, returned |-> returned]
    /\ UNCHANGED notRpc2

\* login(), lines 75-113
R2Login(sock1, resp1, sock2, resp2) ==
    /\ r2_id + 2 <= MaxRpcId
    /\ LET r1 == request(Rpc2Client, "global.login", LoginParams(<< >>), "RPC2_Login", FALSE,
                         sock1, resp1)
       IN IF r1.raised # "none"
          THEN Rpc2Done("login", r1.client, r1.hello, r1.posted, r1.raised, << >>)
          ELSE LET c == [r1.client EXCEPT !.session_id = r1.response.session]
                   hash == pass_hash(Rpc2Username, Rpc2Password, r1.response.realm,
                                     r1.response.random)
                   r2 == request(c, "global.login", LoginParams(hash), "RPC2_Login", TRUE,
                                 sock2, resp2)
               IN Rpc2Done("login", r2.client, r1.hello + r2.hello, r1.posted \o r2.posted,
                           r2.raised,
                           IF r2.raised = "none" THEN << r2.response >> ELSE << >>)

\* logout(), lines 115-126: False when the request raises or the result is not True
R2Logout(sock, resp) ==
    /\ r2_id + 1 <= MaxRpcId
    /\ LET r == request(Rpc2Client, "global.logout", NoParams, "RPC2", TRUE, sock, resp)
       IN Rpc2Done("logout", r.client, r.hello, r.posted, "none",
                   << r.raised = "none" /\ r.response.result >>)

\* the methods of current_time, get_serial_number, get_config and get_device_name
QueryMethods ==
    [current_time |-> "global.getCurrentTime", get_serial_number |-> "magicBox.getSerialNo",
     get_config |-> "configManager.getConfig", get_device_name |-> "configManager.getConfig"]

\* current_time, get_serial_number, get_config, get_device_name (lines 128-149): one
\* request, whose answer is returned
R2Query(op, sock, resp) ==
    /\ r2_id + 1 <= MaxRpcId
    /\ LET r == request(Rpc2Client, QueryMethods[op], NoParams, "RPC2", TRUE, sock, resp)
       IN Rpc2Done(op, r.client, r.hello, r.posted, r.raised,
                   IF r.raised = "none" THEN << r.response >> ELSE << >>)

\* __init__, lines 21-37
Rpc2Init ==
    /\ r2_id = 0
    /\ r2_session_id = NoSession
    /\ r2_hello = 0
    /\ r2_posted = << >>
    /\ r2_last = [op |-> "none", raised |-> "none", returned |-> << >>]

Rpc2Next ==
    \/ \E sock1 \in SocketOutcomes, resp1 \in Rpc2Responses,
          sock2 \in SocketOutcomes, resp2 \in Rpc2Responses : R2Login(sock1, resp1, sock2, resp2)
    \/ \E sock \in SocketOutcomes, resp \in Rpc2Responses : R2Logout(sock, resp)
    \/ \E op \in DOMAIN QueryMethods, sock \in SocketOutcomes, resp \in Rpc2Responses :
           R2Query(op, sock, resp)

(***************************************************************************)
(* DahuaDataUpdateCoordinator.on_receive_vto_event and the DahuaEventSensor *)
(* entities of a doorbell: binary_sensor.py adds one sensor for each name, *)
(* a sensor registers its listener under get_event_key(name) and reads the *)
(* timestamp stored under that key.                                        *)
(***************************************************************************)
MaxVtoEvents == 3

\* binary_sensor.py lines 72-84 (of the BackKeyLight-N sensors the first), and a
\* configured event of get_event_list()
SensorNames == {<< "BackKeyLight" >>, << "BackKeyLight", "-", "4" >>, << "DoorStatus" >>,
                << "VideoMotion" >>}

\* what a VTO event carries: Code, Action, and Data.State and Data.Status
VtoCodes == {<< "BackKeyLight" >>, << "DoorStatus" >>, << "VideoMotion" >>}

VtoActions == {"Start", "Stop", "Pulse", "Other"}

VtoStates == {0, 1, 2}

VtoStatuses == {"Open", "Close"}

\* binary_sensor.py line 148: a BackKeyLight-N sensor is on for 30 seconds
HoldSeconds == 30

NoOperation == [op |-> "none", code |-> <<>>, action |-> "", state |-> 0, status |-> "",
                called |-> FALSE]

\* dict.get(k, default)
DictGet(d, k, default) == IF k \in DOMAIN d THEN d[k] ELSE default

\* self._coordinator.get_event_timestamp(self._event_name), binary_sensor.py line 146
\* and __init__.py lines 522-528
SensorTimestamp(event_name) ==
    DictGet(db_timestamp, get_event_key(event_name, db_channel), 0)

\* DahuaEventSensor.is_on, binary_sensor.py lines 137-151, read at time now
is_on(event_name, now) ==
    LET event_timestamp == SensorTimestamp(event_name) IN
    IF StartsWith(event_name, << "BackKeyLight", "-" >>) /\ event_timestamp > 0
       /\ (now - event_timestamp) >= HoldSeconds
    THEN FALSE
    ELSE event_timestamp > 0

\* DahuaEventSensor.async_added_to_hass, binary_sensor.py lines 153-155, and
\* add_dahua_event_listener, lines 530-534
DbAddSensor(event_name) ==
    /\ get_event_key(event_name, db_channel) \notin db_listeners
    /\ db_listeners' = db_listeners \cup {get_event_key(event_name, db_channel)}
    /\ db_last' = [NoOperation EXCEPT !.op = "add", !.code = event_name]
    /\ UNCHANGED << db_channel, db_timestamp, db_calls, notSensor >>

\* lines 406-428: the timestamp on_receive_vto_event stores for the event, -1 when it
\* stores nothing and calls no listener
VtoTimestampOf(code, action, state, status) ==
    IF action = "Start" THEN TimeOfFiring
    ELSE IF action = "Stop" THEN 0
    ELSE IF action = "Pulse"
    THEN IF code = << "DoorStatus" >>
         THEN (IF status = "Open" THEN TimeOfFiring ELSE 0)
         ELSE (IF state = 1 THEN TimeOfFiring ELSE 0)
    ELSE -1

\* on_receive_vto_event(event), lines 358-428: the code is translated, the listener is
\* looked up under the key of the translated code, the timestamp is stored under that
\* key and the listener is called
DbEvent(evcode, action, state, status) ==
    /\ Len(db_calls) < MaxVtoEvents
    /\ LET code == translate_event_code((<< "Code" >> :> evcode)).code
           event_key == get_event_key(code, db_channel)
           ts == VtoTimestampOf(code, action, state, status)
           called == event_key \in db_listeners /\ ts >= 0
       IN /\ db_timestamp' = IF called THEN Put(db_timestamp, event_key, ts) ELSE db_timestamp
          /\ db_calls' = IF called THEN Append(db_calls, event_key) ELSE db_calls
          /\ db_last' = [op |-> "event", code |-> evcode, action |-> action, state |-> state,
                         status |-> status, called |-> called]
    /\ UNCHANGED << db_channel, db_listeners, notSensor >>

SensorStart ==
    /\ db_listeners = {}
    /\ db_timestamp = <<>>
    /\ db_calls = <<>>
    /\ db_last = NoOperation

\* the coordinator of a doorbell is constructed for a channel
SensorInit == db_channel \in Channels /\ SensorStart

\* the state of this part while the other parts run
SensorIdle == db_channel = 0 /\ SensorStart

SensorNext ==
    \/ \E event_name \in SensorNames : DbAddSensor(event_name)
    \/ \E evcode \in VtoCodes, action \in VtoActions, state \in VtoStates,
          status \in VtoStatuses : DbEvent(evcode, action, state, status)

(***************************************************************************)
(* DahuaVTOClient.data_received over the reads of one connection: the      *)
(* device's frames are a byte stream, and the transport calls              *)
(* data_received with whatever has arrived, so a read may end anywhere in  *)
(* a frame.                                                                *)
(***************************************************************************)
MaxReadFrames == 2

MaxReads == 2

\* the frames of this part
ReadHeaders == {"plain", "len7B"}

ReadBodies == {"compact", "nested", "loginOk"}

RECURSIVE Concat(_)
\* the bytes of a sequence of reads, in order
Concat(reads) == IF reads = <<>> THEN <<>> ELSE Head(reads) \o Concat(Tail(reads))

\* a data_received that kept the bytes of earlier reads and decoded them with the new
\* ones
data_received_buffered(reads, data) ==
    DispatchAll(RxHandlers, parse_response(Concat(reads) \o data))

\* data_received(data), lines 91-103: the calls it makes, the earlier reads being
\* reads; self holds no bytes of them
data_received(reads, data) == DispatchAll(RxHandlers, parse_response(data))

\* the device sends one more frame
RdSendFrame(hdr, body) ==
    /\ rd_sent < MaxReadFrames
    /\ rd_sent' = rd_sent + 1
    /\ rd_wire' = rd_wire \o HeaderBytes(hdr) \o BodyBytes(body)
    /\ UNCHANGED << rd_reads, rd_calls, notReads >>

\* the transport delivers the first n bytes that arrived: data_received(data)
RdDataReceived(n) ==
    /\ Len(rd_reads) < MaxReads
    /\ n \in 1..Len(rd_wire)
    /\ LET data == SubSeq(rd_wire, 1, n) IN
       /\ rd_reads' = Append(rd_reads, data)
       /\ rd_calls' = Append(rd_calls, data_received(rd_reads, data))
    /\ rd_wire' = SubSeq(rd_wire, n + 1, Len(rd_wire))
    /\ UNCHANGED << rd_sent, notReads >>

ReadsInit ==
    /\ rd_sent = 0
    /\ rd_wire = <<>>
    /\ rd_reads = <<>>
    /\ rd_calls = <<>>

ReadsNext ==
    \/ \E hdr \in ReadHeaders, body \in ReadBodies : RdSendFrame(hdr, body)
    \/ \E n \in 1..Len(rd_wire) : RdDataReceived(n)

(***************************************************************************)
(* Specifications                                                          *)
(***************************************************************************)
InitParse == ParseInit /\ RxInit /\ ThreadIdle /\ SendInit /\ VtoInit /\ StreamIdle /\ ApiIdle /\ CoordinatorIdle /\ HashIdle /\ Rpc2Init /\ SensorIdle /\ ReadsInit
SpecParse == InitParse /\ [][ParseNext]_vars

InitRx == RxInit /\ ParseInit /\ ThreadIdle /\ SendInit /\ VtoInit /\ StreamIdle /\ ApiIdle /\ CoordinatorIdle /\ HashIdle /\ Rpc2Init /\ SensorIdle /\ ReadsInit
SpecRx == InitRx /\ [][RxNext]_vars

InitThread == ThreadInit /\ ParseInit /\ RxInit /\ SendInit /\ VtoInit /\ StreamIdle /\ ApiIdle /\ CoordinatorIdle /\ HashIdle /\ Rpc2Init /\ SensorIdle /\ ReadsInit
SpecThread == InitThread /\ [][ThreadNext]_vars

\* the thread of run() is scheduled and time.sleep returns; the stream connection in
\* flight ends (stream_events returns or future.result() raises)
ThreadFairness ==
    /\ WF_vars(ThRunBegin) /\ WF_vars(ThExitAtTop) /\ WF_vars(ThOpen) /\ WF_vars(ThWake)
    /\ WF_vars(\E outcome \in StreamOutcomes : ThStreamEnds(outcome))
FairSpecThread == InitThread /\ [][ThreadNext]_vars /\ ThreadFairness

InitSend == SendInit /\ ParseInit /\ RxInit /\ ThreadIdle /\ VtoInit /\ StreamIdle /\ ApiIdle /\ CoordinatorIdle /\ HashIdle /\ Rpc2Init /\ SensorIdle /\ ReadsInit
SpecSend == InitSend /\ [][SendNext]_vars

InitVto == VtoInit /\ ParseInit /\ RxInit /\ ThreadIdle /\ SendInit /\ StreamIdle /\ ApiIdle /\ CoordinatorIdle /\ HashIdle /\ Rpc2Init /\ SensorIdle /\ ReadsInit
SpecVto == InitVto /\ [][VtoNext]_vars

InitStream == StreamInit /\ ParseInit /\ RxInit /\ ThreadIdle /\ SendInit /\ VtoInit /\ ApiIdle /\ CoordinatorIdle /\ HashIdle /\ Rpc2Init /\ SensorIdle /\ ReadsInit
SpecStream == InitStream /\ [][StreamNext]_vars

InitApi == ApiInit /\ ParseInit /\ RxInit /\ ThreadIdle /\ SendInit /\ VtoInit /\ StreamIdle /\ CoordinatorIdle /\ HashIdle /\ Rpc2Init /\ SensorIdle /\ ReadsInit
SpecApi == InitApi /\ [][ApiNext]_vars

InitCoordinator == CoordinatorInit /\ ParseInit /\ RxInit /\ ThreadIdle /\ SendInit /\ VtoInit /\ StreamIdle /\ ApiIdle /\ HashIdle /\ Rpc2Init /\ SensorIdle /\ ReadsInit
SpecCoordinator == InitCoordinator /\ [][CoordinatorNext]_vars

InitHash == HashInit /\ CoordinatorIdle /\ ParseInit /\ RxInit /\ ThreadIdle /\ SendInit /\ VtoInit /\ StreamIdle /\ ApiIdle /\ Rpc2Init /\ SensorIdle /\ ReadsInit
SpecHash == InitHash /\ [][HashNext]_vars

InitRpc2 == Rpc2Init /\ HashIdle /\ CoordinatorIdle /\ ParseInit /\ RxInit /\ ThreadIdle /\ SendInit /\ VtoInit /\ StreamIdle /\ ApiIdle /\ SensorIdle /\ ReadsInit
SpecRpc2 == InitRpc2 /\ [][Rpc2Next]_vars

InitSensor == SensorInit /\ Rpc2Init /\ HashIdle /\ CoordinatorIdle /\ ParseInit /\ RxInit /\ ThreadIdle /\ SendInit /\ VtoInit /\ StreamIdle /\ ApiIdle /\ ReadsInit
SpecSensor == InitSensor /\ [][SensorNext]_vars

InitReads == ReadsInit /\ SensorIdle /\ Rpc2Init /\ HashIdle /\ CoordinatorIdle /\ ParseInit /\ RxInit /\ ThreadIdle /\ SendInit /\ VtoInit /\ StreamIdle /\ ApiIdle
SpecReads == InitReads /\ [][ReadsNext]_vars

\* _async_update_data_int, lines 277-294: a coordinator starts the thread of the HTTP
\* event stream when the device is no doorbell and the VTO thread when it is one
CameraEvents == vt_pc = "idle" /\ StreamNext
DoorbellEvents == st_pc = "idle" /\ VtoNext
EventsNext == CameraEvents \/ DoorbellEvents
SpecEvents == InitStream /\ [][EventsNext]_vars

\* the thread of run() and the Timer threads are scheduled; the device, the host and
\* the network owe nothing
VtoFairness ==
    /\ WF_vars(VtRunBegin) /\ WF_vars(VtExitAtTop) /\ WF_vars(VtConnect)
    /\ WF_vars(VtLoopStopped) /\ WF_vars(VtWake) /\ WF_vars(VTimer)
SpecVtoThread == InitVto /\ [][VtoThreadNext]_vars
FairSpecVtoThread == InitVto /\ [][VtoThreadNext]_vars /\ VtoFairness

(***************************************************************************)
(* C1 (as claimed): a chunk with N well-formed event blocks (three header  *)
(* lines, then a remainder starting with Code=) and any malformed blocks   *)
(* yields exactly the N events of the well-formed blocks, in input order,  *)
(* and parse_event raises no error.                                        *)
(***************************************************************************)
\* the claim's well-formed block, read off the block's text
WellFormedBlock(text) ==
    LET s == SplitMax(text, "N", 3) IN
    Len(s) = 4 /\ StartsWith(Strip(s[4]), << "Code", "=" >>)

\* the Code= value a well-formed block carries
CodeOfBlock(text) == Strip(SplitMax(text, "N", 3)[4])[3]

RECURSIVE WellFormedCodes(_)
WellFormedCodes(names) ==
    IF names = <<>> THEN <<>>
    ELSE (IF WellFormedBlock(BlockText(Head(names)))
          THEN << CodeOfBlock(BlockText(Head(names))) >> ELSE <<>>)
         \o WellFormedCodes(Tail(names))

C1_ParseYieldsEventsOfWellFormedBlocks ==
    pe_pc = "done" =>
        /\ pe_result.err = "none"
        /\ Len(pe_result.events) = Len(WellFormedCodes(pe_blocks))
        /\ \A i \in 1..Len(pe_result.events) :
               /\ << "Code" >> \in DOMAIN pe_result.events[i]
               /\ pe_result.events[i][<< "Code" >>] = << WellFormedCodes(pe_blocks)[i] >>

(***************************************************************************)
(* C2 (as claimed): a read holding k >= 1 complete top-level JSON objects, *)
(* each behind its binary header, makes data_received dispatch exactly k   *)
(* messages, in buffer order, each to the handler registered under its id  *)
(* (the default handler when none is); no nested object is dispatched.     *)
(***************************************************************************)
C2_EveryTopLevelObjectDispatchedOnce ==
    rx_pc = "done" =>
        /\ Len(rx_calls) = Len(rx_frames)
        /\ \A i \in 1..Len(rx_calls) :
               /\ rx_calls[i].id = TopId(rx_frames[i].body)
               /\ rx_calls[i].handler = HandlerFor(RxHandlers, TopId(rx_frames[i].body))

(***************************************************************************)
(* C3 (as claimed): whenever a stream connection ends and stop was not     *)
(* requested, run() pauses 60 seconds before the next attempt if less than *)
(* 10 seconds elapsed since the connection was opened, and makes the next  *)
(* attempt with no pause if 10 seconds or more elapsed.                    *)
(***************************************************************************)
C3_PauseIffUnderTenSeconds ==
    th_last.kind # "none" =>
        /\ th_last.elapsed < FastFailSeconds * TicksPerSec => th_last.wait = RetrySleepSeconds
        /\ th_last.elapsed >= FastFailSeconds * TicksPerSec => th_last.wait = 0

(***************************************************************************)
(* C3 (amended): the elapsed time is taken as the difference of two clock  *)
(* readings truncated to whole seconds: a connection that ends 9 seconds   *)
(* or less after it was opened is followed by a 60-second pause, one that  *)
(* ends 10 seconds or more after it by an immediate attempt, and one that  *)
(* lasted between 9 and 10 seconds by either; a pausing thread is in       *)
(* time.sleep, a thread that does not pause is back at the loop head.      *)
(***************************************************************************)
C3_PauseByWholeSeconds ==
    th_last.kind # "none" =>
        /\ th_last.wait \in {0, RetrySleepSeconds}
        /\ th_last.elapsed <= (FastFailSeconds - 1) * TicksPerSec
               => th_last.wait = RetrySleepSeconds
        /\ th_last.elapsed >= FastFailSeconds * TicksPerSec => th_last.wait = 0
        /\ th_pc = "sleeping" => th_last.wait = RetrySleepSeconds

\* a connection that failed after 3 seconds and is followed by the 60-second pause
C3_Witness ==
    /\ th_pc = "sleeping"
    /\ th_last.kind = "exception"
    /\ th_last.elapsed = 3 * TicksPerSec
    /\ th_last.wait = RetrySleepSeconds

(***************************************************************************)
(* C4 (as claimed): once stop() was called on a thread whose start() was   *)
(* called, the thread opens no new stream connection, for every            *)
(* interleaving of stop() with run(), also when stop() arrives before      *)
(* run() has executed its first statement.                                 *)
(***************************************************************************)
C4_NoConnectionAfterStop == [][th_stopCalled => th_opens' = th_opens]_vars

(***************************************************************************)
(* C5 (as claimed): within one DahuaVTOClient connection every outbound    *)
(* message carries an id strictly greater than the id of every message     *)
(* sent before it, so no id is ever reused.                                *)
(***************************************************************************)
C5_IdsStrictlyIncrease ==
    \A i, j \in 1..Len(sd_wire) : i < j => sd_wire[i].id < sd_wire[j].id
(***************************************************************************)
(* C6: on a VTO connection a global.login with a non-empty password is     *)
(* sent only after a response to the pre-login request was handled whose   *)
(* error message is exactly "Component error: login challenge!"; its       *)
(* password is derived from the random and realm of the challenge handled  *)
(* last before it, and every message sent after a challenge carries the    *)
(* session id of the challenge handled last before it.  Before the first   *)
(* challenge only the empty password is sent.                              *)
(***************************************************************************)
ChallengeBefore(i) == v_chals[v_sent[i].after]

C6_LoginOnlyAfterChallenge ==
    \A i \in 1..Len(v_sent) :
        /\ v_sent[i].after = 0 => v_sent[i].password = <<>> /\ v_sent[i].session = 0
        /\ v_sent[i].after >= 1 =>
              /\ ChallengeBefore(i).message = "Component error: login challenge!"
              /\ v_sent[i].session = ChallengeBefore(i).session
        /\ (v_sent[i].method = "global.login" /\ v_sent[i].password # <<>>) =>
              /\ v_sent[i].after >= 1
              /\ v_sent[i].password =
                     << "MD5", Username, ChallengeBefore(i).random,
                        << "MD5", Username, ChallengeBefore(i).realm, Password >> >>

\* the login was sent after a challenge and the attach request after it carries the
\* session of that challenge
C6_Witness ==
    \E i, j \in 1..Len(v_sent) :
        /\ i < j
        /\ v_sent[i].method = "global.login" /\ v_sent[i].password # <<>>
        /\ v_sent[j].method = "eventManager.attach"
        /\ v_sent[j].session = ChallengeBefore(i).session

(***************************************************************************)
(* C7 (as claimed): when a pre-login response without a valid challenge,   *)
(* or a login response without keepAliveInterval, was handled, the client  *)
(* does not stay connected without being logged in: run_forever returns    *)
(* and the thread goes on to its retry (or the client logs in after all).  *)
(***************************************************************************)
AttachSent == \E i \in DOMAIN v_handlers : v_handlers[i] = "handle_attach_event_manager"

C7_FailedLoginEndsConnection ==
    (v_authFailed /\ vt_pc = "running" /\ ~AttachSent) ~> (vt_pc # "running" \/ AttachSent)

(***************************************************************************)
(* C8 (as claimed): a login response carrying keepAliveInterval K starts a *)
(* keep-alive timer of K-5 seconds, the acknowledgement of a keep-alive    *)
(* starts the next timer of K-5 seconds, and a further keep-alive is never *)
(* scheduled while the previous one is still to be sent or acknowledged:   *)
(* two keep-alive timers are never pending together.                       *)
(***************************************************************************)
C8_KeepAliveChain ==
    /\ (v_last.handler = "handle_login" /\ KeepAliveOf(v_last.kind) # 0)
           => v_last.started = << KeepAliveOf(v_last.kind) - 5 >>
    /\ v_last.handler = "handle_keep_alive"
           => v_last.started = << v_keep_alive_interval >>
    /\ \A i \in 1..Len(v_timers) : v_timers[i] = v_keep_alive_interval
    /\ Len(v_timers) <= 1

(***************************************************************************)
(* C9 (as claimed): once eventManager.attach was sent, a handled message   *)
(* whose method is client.notifyEventStream, whatever its id, has every    *)
(* item of its eventList passed to on_receive_vto_event, in order, once;   *)
(* a message with another method has nothing passed.                       *)
(***************************************************************************)
EventsOf(calls) == [i \in 1..Len(calls) |-> calls[i].ev]

UpToFirstRaise(event_list) ==
    LET raising == {i \in 1..Len(event_list) : CallbackRaises(event_list[i])}
    IN IF raising = {} THEN event_list
       ELSE SubSeq(event_list, 1, CHOOSE i \in raising : \A j \in raising : i <= j)

C10_EveryEventCarriesBothTags ==
    \A i \in 1..Len(v_last.delivered) :
        DOMAIN v_last.delivered[i].tags = {"deviceType", "serialNumber"}

(***************************************************************************)
(* C10 (amended): an event passed to on_receive_vto_event carries the      *)
(* deviceType tag exactly when the device-type response was handled before *)
(* the push, and the serialNumber tag exactly when the serial-number       *)
(* response was handled before it, each with the value of that response;   *)
(* version and build date are never added.                                 *)
(***************************************************************************)
C10_TagsAreTheLoadedDetails ==
    \A i \in 1..Len(v_last.delivered) :
        LET tags == v_last.delivered[i].tags IN
        /\ DOMAIN tags = (DOMAIN v_details) \cap {"deviceType", "serialNumber"}
        /\ \A k \in DOMAIN tags : tags[k] = v_details[k]

\* an event was passed on when the version and the device type were loaded and the
\* serial number was not: it carries the deviceType tag alone
C10_Witness ==
    /\ v_last.delivered # <<>>
    /\ DOMAIN v_details = {"version", "buildDate", "deviceType"}
    /\ DOMAIN v_last.delivered[1].tags = {"deviceType"}

(***************************************************************************)
(* C11 (as claimed): DahuaVtoEventThread.run waits 5 seconds only after a  *)
(* connection that ended by a graceful EOF, and 30 seconds after a         *)
(* connection that failed to be made or was lost with an error: a          *)
(* connection lost with an error is not followed by the 5 second wait.     *)
(***************************************************************************)
C11_WaitByKindOfEnd ==
    /\ vt_pc = "sleep5" => vt_ended = "eof"
    /\ vt_pc = "sleep30" => vt_ended \in {"exception", "lost"}

(***************************************************************************)
(* C12 (as claimed): every object parse_response finds in a read is        *)
(* dispatched to its handler, whatever happened to the objects before it   *)
(* in the same read: an unparseable frame or a raising handler costs that  *)
(* one message only.                                                       *)
(***************************************************************************)
C12_EveryFoundObjectDispatched ==
    rx_pc = "done" =>
        LET found == parse_response(rx_data) IN
        /\ Len(rx_calls) = Len(found)
        /\ \A i \in 1..Len(found) : rx_calls[i].at = found[i].at

(***************************************************************************)
(* C13 (as claimed): of the events of a chunk of the HTTP event stream,    *)
(* exactly those whose index (0 when the event has none) equals the        *)
(* channel of the coordinator are fired on the bus, in their order; the    *)
(* others cause no bus event, and a listener is called and a timestamp     *)
(* written only under a key of the coordinator's own channel and only for  *)
(* an event that was fired.                                                *)
(***************************************************************************)
\* the events of one block, received alone
EventsOfBlock(name) ==
    LET r == parse_event(Decode(<< "B" >> \o BlockText(name))) IN
    IF r.err = "none" THEN r.events ELSE <<>>

RECURSIVE EventsOfChannel(_, _)
\* the events of the blocks of a chunk that carry the index of the channel
EventsOfChannel(names, channel) ==
    IF names = <<>> THEN <<>>
    ELSE SelectSeq(EventsOfBlock(Head(names)), LAMBDA e : EventIndex(e) = channel)
         \o EventsOfChannel(Tail(names), channel)

\* the events fired on the bus for the last chunk
FiredForLastChunk ==
    [i \in 1..(Len(st_bus) - st_last.bus_before) |-> st_bus[st_last.bus_before + i].event]

C13_ExactlyOwnChannelForwarded ==
    st_chunks # <<>> =>
        /\ FiredForLastChunk = EventsOfChannel(st_chunks[Len(st_chunks)], st_channel)
        /\ Len(st_calls) <= Len(st_bus)
        /\ \A i \in 1..Len(st_calls) : st_calls[i][2] = st_channel
        /\ \A k \in DOMAIN st_timestamp : k[2] = st_channel
(***************************************************************************)
(* C14: within one connection events are delivered in the order of their   *)
(* bytes.  On the HTTP stream the firings on the bus are ordered by chunk  *)
(* and, within a chunk, by the position of the event in it, and each is    *)
(* the event parse_event found at that position; the events a VTO message  *)
(* delivers are the items of its eventList from the first, in order.       *)
(***************************************************************************)
RECURSIVE ChunkBytes(_)
\* the bytes of a chunk made of the named blocks
ChunkBytes(names) ==
    IF names = <<>> THEN <<>>
    ELSE << "B" >> \o BlockText(Head(names)) \o ChunkBytes(Tail(names))

C14_DeliveredInByteOrder ==
    /\ \A i \in 1..Len(st_bus) : \A j \in 1..Len(st_bus) :
           i < j => \/ st_bus[i].chunk < st_bus[j].chunk
                    \/ st_bus[i].chunk = st_bus[j].chunk /\ st_bus[i].pos < st_bus[j].pos
    /\ \A i \in 1..Len(st_bus) :
           /\ st_bus[i].chunk \in 1..Len(st_chunks)
           /\ LET r == parse_event(Decode(ChunkBytes(st_chunks[st_bus[i].chunk]))) IN
              /\ r.err = "none"
              /\ st_bus[i].pos \in 1..Len(r.events)
              /\ r.events[st_bus[i].pos] = st_bus[i].event
    /\ Len(v_last.delivered) <= Len(EventListOf(v_last.kind))
    /\ \A i \in 1..Len(v_last.delivered) :
           v_last.delivered[i].ev = EventListOf(v_last.kind)[i]

\* two events of the first chunk and one of the second were fired
C14_Witness ==
    /\ Len(st_bus) = 3
    /\ st_bus[1].chunk = 1 /\ st_bus[2].chunk = 1 /\ st_bus[3].chunk = 2
    /\ st_bus[1].event # st_bus[2].event

(***************************************************************************)
(* C15 (as claimed): a malformed block, or malformed JSON inside an event, *)
(* in a chunk of the HTTP event stream costs that block alone: on_receive  *)
(* raises nothing, so the connection is not closed by it, and every event  *)
(* of the coordinator's channel that a block of the chunk yields when it   *)
(* is parsed alone is fired for the chunk.                                 *)
(***************************************************************************)
C15_MalformedBlockCostsItselfOnly ==
    st_chunks # <<>> =>
        /\ st_last.err = "none"
        /\ LET own == EventsOfChannel(st_chunks[Len(st_chunks)], st_channel) IN
           \A k \in 1..Len(own) :
               \E i \in 1..Len(FiredForLastChunk) : FiredForLastChunk[i] = own[k]

(***************************************************************************)
(* C16: however a connection of the HTTP event stream ends, run() does not *)
(* raise, and it returns only after stop() was called; a thread that was   *)
(* not stopped is opening a connection, reading it or pausing before the   *)
(* next attempt.                                                           *)
(***************************************************************************)
C16_RunEndsOnlyOnStop ==
    /\ th_pc # "raised"
    /\ th_pc = "exited" => th_stopCalled /\ ~th_started
    /\ (th_last.kind # "none" /\ th_started) => th_pc \in {"top", "streaming", "sleeping"}

\* a connection ended by an exception and the thread has opened the next one
C16_Witness ==
    /\ th_last.kind = "exception"
    /\ th_pc = "streaming"
    /\ th_opens = 2
    /\ th_started

(***************************************************************************)
(* C17: parse_dahua_api_response has one entry for every line of the       *)
(* response.  The key of a line is what stands before its first '=' and    *)
(* its value what stands behind it, untouched; a line without '=' is its   *)
(* own key and value; of the lines with one key the last gives the value.  *)
(***************************************************************************)
\* the position of the first '=' of a line, 0 when it has none
FirstEq(line) ==
    IF \E i \in 1..Len(line) : line[i] = "="
    THEN CHOOSE i \in 1..Len(line) : line[i] = "=" /\ \A j \in 1..(i - 1) : line[j] # "="
    ELSE 0

KeyOfLine(line) == IF FirstEq(line) = 0 THEN line ELSE SubSeq(line, 1, FirstEq(line) - 1)

ValueOfLine(line) ==
    IF FirstEq(line) = 0 THEN line ELSE SubSeq(line, FirstEq(line) + 1, Len(line))

C17_OneEntryPerLine ==
    (ap_pc = "done" /\ ap_result.op = "parse_dahua_api_response") =>
        LET lines == splitlines(ap_data)
            d == ap_result.value
        IN /\ DOMAIN d = {KeyOfLine(lines[i]) : i \in 1..Len(lines)}
           /\ \A i \in 1..Len(lines) :
                  (\A j \in (i + 1)..Len(lines) : KeyOfLine(lines[j]) # KeyOfLine(lines[i]))
                      => d[KeyOfLine(lines[i])] = ValueOfLine(lines[i])

\* a response of the lines "=" and "==", both with the empty key: one entry, holding
\* what stands behind the first '=' of the second line
C17_Witness ==
    /\ ap_pc = "done" /\ ap_result.op = "parse_dahua_api_response"
    /\ ap_data = << "=", "N", "=", "=" >>
    /\ DOMAIN ap_result.value = {<<>>}
    /\ ap_result.value[<<>>] = << "=" >>

(***************************************************************************)
(* C18 (as claimed): every operation that sends a setConfig request raises *)
(* when the device's acknowledgement is not the text OK or ok (apart from  *)
(* white space around it), and returns normally when it is.                *)
(***************************************************************************)
C18_SetConfigRaisesUnlessOk ==
    (ap_pc = "done" /\ ap_result.op \in SetConfigOps /\ ap_result.http_ok) =>
        (ap_result.raised = "none" <=> Strip(ap_data) \in {<< "OK" >>, << "ok" >>})

(***************************************************************************)
(* C19 (as claimed): the channel number is the channel index plus one      *)
(* until the initialization ran, and once the coordinator is initialized   *)
(* it is the channel index itself exactly when the snapshot probe at index *)
(* 0 succeeded and the device is no doorbell; for a doorbell it stays the  *)
(* index plus one.                                                         *)
(***************************************************************************)
\* get_channel_number()
get_channel_number == in_channel_number

C19_ChannelNumberByProbeAndKind ==
    /\ in_pc = "new" => get_channel_number = in_channel + 1
    /\ in_initialized =>
           get_channel_number = IF in_snapshot = "ok" /\ ~is_doorbell(in_model)
                                THEN in_channel ELSE in_channel + 1

(***************************************************************************)
(* C20 (as claimed): a run of the initialization is never ended by a       *)
(* client error (an aiohttp ClientError) of one of the capability probes:  *)
(* what ends a run at a probe is an exception of another kind.             *)
(***************************************************************************)
CapabilityProbes == {"snapshot", "coaxial", "disarming", "smart_motion", "lighting", "profile"}

C20_ProbeClientErrorNeverAborts ==
    (in_pc = "failed" /\ in_cause.step \in CapabilityProbes) =>
        ~IsClientError(in_cause.error)

(***************************************************************************)
(* C21 (as claimed): once a capability probe of the initialization ran and *)
(* the run went on, the flag of the capability is true exactly when the    *)
(* device answered the probe successfully; after an HTTP error status, as  *)
(* after any other client error, it is false.  (For the profile mode a     *)
(* successful answer must also have more than one line.)                   *)
(***************************************************************************)
\* the flag a probe decides
FlagOfProbe(step) ==
    CASE step = "coaxial" -> in_supports.coaxial_control
      [] step = "disarming" -> in_supports.disarming_linkage
      [] step = "smart_motion" -> in_supports.smart_motion_detection
      [] step = "lighting" -> in_supports.lighting
      [] step = "profile" -> in_supports.profile_mode

C21_FlagIffProbeSucceeded ==
    /\ (in_pc # "failed"
           /\ in_probe.step \in {"coaxial", "disarming", "smart_motion", "lighting"})
          => (FlagOfProbe(in_probe.step) <=> in_probe.outcome = "ok")
    /\ (in_pc # "failed" /\ in_probe.step = "profile")
          => (FlagOfProbe(in_probe.step) => in_probe.outcome = "ok")

C23_FrozenAfterInit ==
    /\ [][/\ in_initialized =>
                /\ UNCHANGED << in_supports, in_model, in_channel_number, in_max_streams >>
                /\ in_initialized'
          /\ in_profile_mode' # in_profile_mode =>
                in_initialized /\ UNCHANGED << in_pc, in_writers, in_listener >>]_vars
    /\ [](in_profile_mode # "")

\* an initialized camera whose refresh read profile mode "1" and that received an event
C23_Witness ==
    /\ in_initialized
    /\ in_profile_mode = "1"
    /\ in_writers # {}

\* C24: the last-event-timestamp mapping of one coordinator is written from at most one
\* execution context: the loop of the host (on_receive) and the VTO thread
\* (on_receive_vto_event) are never both writers of it.
C24_OneWriterContext == Cardinality(in_writers) <= 1

\* a camera whose run failed after its event thread was started, and whose thread
\* delivered an event
C24_Witness ==
    /\ in_pc = "failed"
    /\ in_listener = {ListenerOfCamera}
    /\ in_writers = {ContextOf(ListenerOfCamera)}

DataOfBlock(name) ==
    CASE name = "ev2" -> << "J" >>
      [] name = "evBadJson" -> << "X" >>
      [] name = "evEqData" -> << "X", "=", "X" >>

\* C26: in a chunk of event blocks that each have a data field, parse_event does not
\* fail, returns one event per block, and the data of each event is the parsed JSON
\* value when the text is valid JSON and the raw text otherwise.
C26_BadDataKeptRaw ==
    (pe_pc = "done" /\ \A i \in 1..Len(pe_blocks) : pe_blocks[i] \in {"ev2", "evBadJson", "evEqData"})
    => /\ pe_result.err = "none"
       /\ Len(pe_result.events) = Len(pe_blocks)
       /\ \A i \in 1..Len(pe_blocks) :
             LET text == DataOfBlock(pe_blocks[i]) IN
             pe_result.events[i][<< "data" >>] =
                 IF JsonLoads_ok(text) THEN JsonLoads(text) ELSE text

RECURSIVE Flatten(_)
\* the blocks of the chunks handed to on_receive, in the order of their bytes
Flatten(chunks) == IF chunks = <<>> THEN <<>> ELSE Head(chunks) \o Flatten(Tail(chunks))

\* the VideoMotion Start and Stop events of channel c among the named blocks
StartStopOf(names, c) ==
    SelectSeq(names, LAMBDA name :
        \/ c = 0 /\ name \in {"evStart0", "evStop0"}
        \/ c = 1 /\ name = "evStart1")

\* get_event_timestamp(event_name), lines 522-528
get_event_timestamp(event_name) ==
    LET event_key == get_event_key(event_name, st_channel) IN
    IF event_key \in DOMAIN st_timestamp THEN st_timestamp[event_key] ELSE 0

\* C27: for the event name with a registered listener (VideoMotion), after every sequence
\* of chunks, get_event_timestamp is the time of the firing exactly when the most recent
\* Start or Stop event of the coordinator's channel was a Start, and 0 when it was a Stop
\* or there was none; the listener was called once for each of these events.
C27_TimestampFollowsLastEvent ==
    LET received == StartStopOf(Flatten(st_chunks), st_channel)
        last_is_start == received # <<>> /\ received[Len(received)] \in {"evStart0", "evStart1"}
    IN "evIdxBad" \notin {Flatten(st_chunks)[i] : i \in 1..Len(Flatten(st_chunks))} =>
       /\ get_event_timestamp(<< "VideoMotion" >>) =
              (IF last_is_start THEN TimeOfFiring ELSE 0)
       /\ Len(st_calls) = Len(received)

\* C28: once stop() was called on a DahuaVtoEventThread whose start() was called, the
\* thread begins no new connection attempt, however stop() and run() interleave (before
\* the first statement of run(), while connected, during the 5 or 30 second wait).
C28_NoVtoConnectionAfterStop ==
    [][vt_stopCalled => ~(vt_pc # "connecting" /\ vt_pc' = "connecting")]_vars

\* C29: a login of DahuaRpc2Client that no socket or device error ended has posted two
\* global.login requests, the first with an empty password, the second with the next id,
\* the session of the first answer and the derived password hash, and has returned the
\* second answer.
C29_LoginPostsTwoRequests ==
    (r2_last.op = "login" /\ r2_last.raised \notin {"OSError", "ConnectionError"}) =>
        /\ r2_last.raised = "none"
        /\ r2_last.returned # << >>
        /\ Len(r2_posted) >= 2
        /\ LET first == r2_posted[Len(r2_posted) - 1].body
               second == r2_posted[Len(r2_posted)].body
           IN /\ first.method = "global.login" /\ second.method = "global.login"
              /\ first.params.password = << >>
              /\ second.id = first.id + 1
              /\ second.session = r2_session_id
              /\ second.params.password # << >>

\* the number of messages of the method among the first k messages sent
SentBefore(method, k) == Cardinality({i \in 1..k : v_sent[i].method = method})

AttachCount == SentBefore("eventManager.attach", Len(v_sent))

\* the four capability loads of handle_login
CapabilityLoads ==
    {"configManager.getConfig AccessControl", "magicBox.getSoftwareVersion",
     "configManager.getConfig T2UServer", "magicBox.getDeviceType"}

ClaimedCode(event) ==
    LET code == IF << "Code" >> \in DOMAIN event THEN event[<< "Code" >>] ELSE <<>>
        human == /\ << "data" >> \in DOMAIN event
                 /\ event[<< "data" >>] = << "json", "JH" >>
    IN IF code \in {<< "CrossLineDetection" >>, << "CrossRegionDetection" >>}
          /\ human /\ ~HasListener(code)
       THEN << "SmartMotionHuman" >>
       ELSE IF code \in {<< "BackKeyLight" >>, << "PhoneCallDetect" >>}
       THEN << "DoorbellPressed" >>
       ELSE code

\* C31: for every event on_receive fired on the bus, translate_event_code returns (it
\* does not raise) SmartMotionHuman, DoorbellPressed or the event's own code as claimed.
C31_TranslatedCodeAsClaimed ==
    \A i \in 1..Len(st_bus) :
        LET tr == translate_event_code(st_bus[i].event) IN
        /\ ~tr.raised
        /\ tr.code = ClaimedCode(st_bus[i].event)

\* C32: on a connection the set of ids registered in data_handlers only grows, and it
\* holds a handler for the id of every message a send call has built and registered,
\* whether the message was written or not (the transport was closing).
C32_HandlersOnlyGrow ==
    /\ [][DOMAIN sd_handlers \subseteq DOMAIN sd_handlers']_vars
    /\ [](\A t \in SendThreads :
             (sd_pc[t] \in {"write", "idle"} /\ sd_msg[t].id # 0) =>
                 sd_msg[t].id \in DOMAIN sd_handlers)

\* C34: when send is called concurrently from the event loop, a Timer thread and the
\* host, the messages written carry pairwise distinct ids and the handler of each is
\* registered under the id its message carries, once the call has registered it.
C34_ConcurrentSendsKeepIdsApart ==
    /\ \A i, j \in 1..Len(sd_wire) : i # j => sd_wire[i].id # sd_wire[j].id
    /\ \A t \in SendThreads :
           (sd_pc[t] = "write" /\ \A u \in SendThreads \ {t} : sd_pc[u] = "idle") =>
               /\ sd_msg[t].id \in DOMAIN sd_handlers
               /\ sd_handlers[sd_msg[t].id] = sd_msg[t].handler

\* C35: at any time at most one keep-alive Timer of a DahuaVTOClient is pending (each
\* pending Timer sends one global.keepAlive request), whatever the device sends, also
\* when it repeats the response to the login or to a keep-alive request.
C35_OneKeepAliveTimer == Cardinality(DOMAIN v_timers) <= 1

\* C33: when the MaxExtraStream query ends in an HTTP error, get_max_streams() is
\* 1 + 2 sub-streams = 3, the value the coordinator starts with and the value it gets
\* when the answer lacks the table.MaxExtraStreams key.
C33_HttpErrorAssumesTwoSubStreams ==
    (in_pc = "machine_name" /\ in_probe = [step |-> "max_streams",
                                           outcome |-> "ClientResponseError"])
        => /\ in_max_streams = DefaultExtraStreams + 1
           /\ in_max_streams = DefaultMaxStreams
           /\ in_max_streams = get_max_extra_streams("ok", "absent").value + 1

\* C36: a refresh that failed (an initialization run that was aborted, a periodic sync
\* that raised UpdateFailed) leaves the client usable: the next request can get the
\* answer of the device, so a later refresh can succeed.
C36_FailedRefreshKeepsClientUsable ==
    (in_pc = "failed" \/ in_raised = "UpdateFailed") => "ok" \in Answers

\* C37: over any sequence of initialization runs and refreshes of one coordinator an
\* event thread is started only while none was started before, and no run ends because
\* start() was called on a started thread.
C37_ThreadStartedAtMostOnce ==
    /\ [][in_listener' # in_listener => in_listener = {}]_vars
    /\ [](in_cause # [step |-> "listener", error |-> "RuntimeError"])

\* an initialization run that failed after the event thread was started, retried, the
\* retried run over
C37_Witness ==
    /\ in_listener = {ListenerOfCamera}
    /\ ~in_initialized
    /\ in_pc = "failed"
    /\ in_cause.step = "snapshot"

\* C38: on a doorbell whose "BackKeyLight" (Button Pressed) sensor registered its
\* listener, a BackKeyLight Pulse event with Data.State 1 stores a non-zero timestamp
\* under the key that sensor reads and calls its listener, so the sensor is on; a
\* BackKeyLight Pulse with another State stores 0, calls it, and the sensor is off.
C38_ButtonPressedSensorFollowsPulse ==
    (/\ db_last.op = "event"
     /\ db_last.code = << "BackKeyLight" >>
     /\ db_last.action = "Pulse"
     /\ get_event_key(<< "BackKeyLight" >>, db_channel) \in db_listeners)
        => /\ db_last.called
           /\ db_calls[Len(db_calls)] = get_event_key(<< "BackKeyLight" >>, db_channel)
           /\ \A now \in TimeOfFiring..(TimeOfFiring + HoldSeconds) :
                  is_on(<< "BackKeyLight" >>, now) <=> (db_last.state = 1)

C40_StoppedThreadReturns ==
    /\ [][th_stopped => th_opens' = th_opens]_vars
    /\ [][(th_stopped /\ th_pc = "streaming") => th_pc' \in {"streaming", "exited"}]_vars
    /\ (th_stopped ~> th_pc = "exited")

\* stop() arrived while the first connection was in flight, and run() returned when that
\* connection ended
C40_Witness ==
    /\ th_stopped
    /\ th_pc = "exited"
    /\ th_opens = 1
    /\ th_last.kind = "none"
====
